---- MODULE Spec2Model ----
(***************************************************************************)
(* A model of the gosax streaming XML tokenizer (package gosax, gosax.go). *)
(* Bytes are one-character strings; a byte slice is a sequence of them.    *)
(* One Event call is one step: it runs the current state function to its   *)
(* return, every extend of the buffer included.                            *)
(***************************************************************************)
EXTENDS Integers, Sequences, FiniteSets, TLC

VARIABLES input, srcErr, EmitSelfClosingTag, reader, state, ret, term, events, faulted, after,
          resets, storage, call, decoder

vars == <<input, srcErr, EmitSelfClosingTag, reader, state, ret, term, events, faulted, after,
          resets, storage, call, decoder>>

\* ------------------------------------------------------------------ bounds
\* largest number of cut positions in an explicit read plan
MaxCuts == 2
\* largest uniform read size of a "k bytes per read" plan
MaxChunk == 3
\* Event calls explored after the first terminal return (EOF or error)
MaxAfter == 2
\* capacity of the small caller-supplied buffer (NewReaderSize(r, SmallBuf))
SmallBuf == 4
\* largest number of Reset calls in a behaviour
MaxResets == 1
\* largest number of pieces (literal bytes, references) in an input of Unescape
MaxPieces == 3
\* largest length of an enumerated input of Name
MaxNameLen == 4
\* largest number of attributes of an enumerated start tag
MaxAttrs == 2
\* largest number of calls of Decoder.Peek made in a row
MaxPeeks == 2
\* length of the longest window the start-tag scan is applied to
MaxWindow == 18
\* largest offset the start-tag scan is started at
MaxOffset == 2

\* ------------------------------------------------------- program constants
eventUnknown == 0
EventStart == 1
EventEnd == 2
EventText == 3
EventCData == 4
EventComment == 5
EventProcessingInstruction == 6
EventDocType == 7
EventEOF == 8

\* ------------------------------------------------------------ byte helpers
Min(a, b) == IF a < b THEN a ELSE b

Max(a, b) == IF a < b THEN b ELSE a

\* Go's w[from:] (from is 0-based); callers check from <= Len(w) first
SliceFrom(w, from) == SubSeq(w, from + 1, Len(w))

\* Go's w[:to]
SliceTo(w, to) == SubSeq(w, 1, to)

\* bytes.IndexByte: 0-based index of the first c in s, -1 when absent
IndexByte(s, c) ==
  IF \E i \in 1..Len(s) : s[i] = c
  THEN (CHOOSE i \in 1..Len(s) : s[i] = c /\ \A j \in 1..(i - 1) : s[j] # c) - 1
  ELSE -1

HasPrefixAt(s, i, pat) ==
  /\ i + Len(pat) - 1 <= Len(s)
  /\ \A k \in 1..Len(pat) : s[i + k - 1] = pat[k]

\* bytes.Index: 0-based index of the first occurrence of pat in s, -1 when absent
Index(s, pat) ==
  IF \E i \in 1..Len(s) : HasPrefixAt(s, i, pat)
  THEN (CHOOSE i \in 1..Len(s) :
          HasPrefixAt(s, i, pat) /\ \A j \in 1..(i - 1) : ~HasPrefixAt(s, j, pat)) - 1
  ELSE -1

\* --------------------------------------------------------------- byteReader
\* The byte source: input is delivered in successive reads cut at the
\* positions of rr.cuts (and by the free space of the buffer); once all of
\* input is delivered a read returns 0 bytes and srcErr (io.EOF or an error).
LaterCuts(rr) == {c \in rr.cuts : c > rr.pos /\ c < Len(input)}

\* the least element of the set S of numbers, or d when S is empty
LeastOr(S, d) == IF S = {} THEN d ELSE CHOOSE c \in S : \A e \in S : c <= e

\* the source position at which the next read ends when space allows
NextCut(rr) == LeastOr(LaterCuts(rr), Len(input))

\* byteReader.window: the unread bytes data[offset:]
window(rr) == SubSeq(rr.data, rr.offset + 1, Len(rr.data))

\* make room before a read: compact the unread bytes to offset 0 when the
\* buffer is full, grow it when compaction frees nothing
MakeRoom(rr) ==
  IF Len(rr.data) < rr.cap THEN rr
  ELSE IF rr.offset > 0
       THEN [rr EXCEPT !.data = window(rr), !.offset = 0]
       ELSE [rr EXCEPT !.cap = Max(1, 2 * rr.cap)]

\* a read that delivers the next n bytes of the input
ReadBytes(rr, n) ==
  [rr |-> [rr EXCEPT !.data = @ \o SubSeq(input, rr.pos + 1, rr.pos + n),
                     !.pos = @ + n,
                     !.reads = @ + 1],
   n |-> n]

\* one read of the source into the free space of the buffer
Read(rr) ==
  IF rr.pos = Len(input)
  THEN [rr |-> [rr EXCEPT !.err = srcErr, !.reads = @ + 1], n |-> 0]
  ELSE ReadBytes(rr, Min(NextCut(rr) - rr.pos, rr.cap - Len(rr.data)))

\* byteReader.extend: [rr |-> the reader after the call, n |-> bytes added];
\* n = 0 once the source is exhausted or errored, the cause kept in rr.err
extend(rr) == IF rr.err # "nil" THEN [rr |-> rr, n |-> 0] ELSE Read(MakeRoom(rr))

\* mutant of resetData: the buffer keeps its length, stale bytes included
resetDataKept(data) == data

\* Reset's data[:0]: the storage is kept, its length set to 0
resetData(data) == <<>>

\* Reader.Reset, the byteReader part: the truncated storage bound to a new
\* source (read plan cuts, nothing delivered yet), every other field zero
Reset(rr, cuts) ==
  [data |-> resetData(rr.data), offset |-> 0, cap |-> rr.cap, err |-> "nil",
   pos |-> 0, cuts |-> cuts, reads |-> 0]

\* the buffer behind a new Reader: NewReader makes an empty one
\* (make([]byte, 0, bufSize)); a caller of NewReaderBuf hands over buf[:],
\* SmallBuf bytes of earlier contents
CallerBuf(bufSize) == IF bufSize = SmallBuf THEN [i \in 1..SmallBuf |-> "<"] ELSE <<>>

\* NewReaderBuf: var xr Reader; xr.reader.data = buf; xr.Reset(r)
NewReaderBuf(cuts, bufSize) ==
  Reset([data |-> CallerBuf(bufSize), offset |-> 0, cap |-> bufSize, err |-> "nil",
         pos |-> 0, cuts |-> {}, reads |-> 0], cuts)

\* ------------------------------------------------------------ Event values
EventZero == [Bytes |-> <<>>, value |-> eventUnknown]

MkEvent(b, v) == [Bytes |-> b, value |-> v]

\* what a state function returns: the reader and next state function it
\* leaves, the (Event, error) pair, and whether it faulted (runtime panic)
Return(rr, st, ev, err) == [rr |-> rr, state |-> st, ev |-> ev, err |-> err, fault |-> FALSE]

Fault(rr, st) == [rr |-> rr, state |-> st, ev |-> EventZero, err |-> "nil", fault |-> TRUE]

\* a token found: the reader advanced past its n bytes, the event returned,
\* stateInsideText scheduled
TokenFound(rr, n, v) ==
  Return([rr EXCEPT !.offset = @ + n], "stateInsideText", MkEvent(SliceTo(window(rr), n), v), "nil")

\* ----------------------------------------------------------------- readText
\* the search offset readText carries over to the next, longer window
readTextNextOffset(offset, w) == offset + Len(w)

RECURSIVE readText(_, _)
\* readText after a miss and the extend e that followed it
readTextMore(e, offset) ==
  IF e.n = 0
  THEN [rr |-> e.rr, end |-> offset, err |-> e.rr.err, fault |-> FALSE]
  ELSE readText(e.rr, offset)

\* readText with i = bytes.IndexByte(w[offset:], '<')
readTextAt(rr, offset, i) ==
  IF i >= 0
  THEN [rr |-> rr, end |-> offset + i, err |-> "nil", fault |-> FALSE]
  ELSE readTextMore(extend(rr), readTextNextOffset(offset, window(rr)))

\* [rr, end, err, fault]: end is the index of the next '<' in the window, or
\* the scanned length when the source gave out; fault when w[offset:] is out
\* of range
readText(rr, offset) ==
  IF offset > Len(window(rr))
  THEN [rr |-> rr, end |-> 0, err |-> "nil", fault |-> TRUE]
  ELSE readTextAt(rr, offset, IndexByte(SliceFrom(window(rr), offset), "<"))

\* ------------------------------------------------------ stateInsideMarkup
\* the printable ASCII bytes in code order, 32 (space) to 126 (code 96 is
\* spelled out: no input uses it)
Ascii == <<
  " ", "!", "\"", "#", "$", "%", "&", "'", "(", ")", "*", "+", ",", "-", ".", "/",
  "0", "1", "2", "3", "4", "5", "6", "7", "8", "9", ":", ";", "<", "=", ">", "?",
  "@", "A", "B", "C", "D", "E", "F", "G", "H", "I", "J", "K", "L", "M", "N", "O",
  "P", "Q", "R", "S", "T", "U", "V", "W", "X", "Y", "Z", "[", "\\", "]", "^", "_",
  "backquote", "a", "b", "c", "d", "e", "f", "g", "h", "i", "j", "k", "l", "m", "n", "o",
  "p", "q", "r", "s", "t", "u", "v", "w", "x", "y", "z", "{", "|", "}", "~">>

\* the numeric values of the bytes, as a table
OrdTable ==
  [c \in {"\t", "\n", "\r"} \cup {Ascii[i] : i \in 1..Len(Ascii)} |->
     CASE c = "\t" -> 9
       [] c = "\n" -> 10
       [] c = "\r" -> 13
       [] OTHER -> 31 + (CHOOSE i \in 1..Len(Ascii) : Ascii[i] = c)]

\* the numeric value of a byte
Ord(c) == OrdTable[c]

RECURSIVE BitXor(_, _, _)
\* a ^ b on the low n bits
BitXor(a, b, n) ==
  IF n = 0 THEN 0
  ELSE (IF (a % 2) = (b % 2) THEN 0 ELSE 1) + 2 * BitXor(a \div 2, b \div 2, n - 1)

\* binary.LittleEndian.Uint64(w[offset:offset+8]) ^ (c * splat): the word as
\* its 8 bytes, least significant first, each xored with the byte of c
xorWord(w, offset, c) == [k \in 1..8 |-> BitXor(Ord(w[offset + k]), Ord(c), 8)]

RECURSIVE borrow(_, _)
\* the borrow into byte k of the 64-bit subtraction x - lo (lo = 0x01 per byte)
borrow(x, k) ==
  IF k = 1 THEN 0
  ELSE IF x[k - 1] - 1 - borrow(x, k - 1) < 0 THEN 1 ELSE 0

\* hasZeroByte: (x-lo) & ^x & hi != 0, on the 8 bytes of x
hasZeroByte(x) ==
  \E k \in 1..8 :
    /\ ((x[k] - 1 - borrow(x, k)) % 256) >= 128
    /\ x[k] < 128

\* mutant of wordHit: the word is not tested for '\''
wordHitNoApos(w, offset) ==
  \/ hasZeroByte(xorWord(w, offset, "\""))
  \/ hasZeroByte(xorWord(w, offset, ">"))

\* the test of one 8-byte word for '"', '>' or '\''
wordHit(w, offset) ==
  \/ hasZeroByte(xorWord(w, offset, "\""))
  \/ hasZeroByte(xorWord(w, offset, ">"))
  \/ hasZeroByte(xorWord(w, offset, "'"))

\* the loop bound of the 8-byte word scan
wordFits(w, offset) == offset + 8 < Len(w)

RECURSIVE wordSkip(_, _)
\* the offset at which the 8-byte word loop stops
wordSkip(w, offset) ==
  IF wordFits(w, offset) /\ ~wordHit(w, offset) THEN wordSkip(w, offset + 8) ELSE offset

\* the bytes that open a quote or close a start tag
isTarget(c) == c = "\"" \/ c = ">" \/ c = "'"

\* the linear scan: 0-based index in s of the first '"', '>' or '\'', else -1
firstTarget(s) ==
  IF \E i \in 1..Len(s) : isTarget(s[i])
  THEN (CHOOSE i \in 1..Len(s) : isTarget(s[i]) /\ \A j \in 1..(i - 1) : ~isTarget(s[j])) - 1
  ELSE -1

\* mutant of quoteOpened: quote bytes do not change the scan state
quoteIgnored(ch) == ">"

\* the state a quote byte puts the start-tag scan in: the byte that closes it
quoteOpened(ch) == ch

\* the inner loop ran off the window in quote state q
NotDone(q) == [done |-> FALSE, end |-> 0, q |-> q]

RECURSIVE startInner(_, _, _)
\* state '>': the linear scan from o2 found the target at index p (or p = -1)
startFound(w, q, o2, p) ==
  IF p < 0 THEN NotDone(q)
  ELSE IF w[o2 + p + 1] = ">" THEN [done |-> TRUE, end |-> o2 + p + 1, q |-> q]
  ELSE startInner(w, quoteOpened(w[o2 + p + 1]), o2 + p + 1)

\* inside a quote: i = bytes.IndexByte(w[offset:], state)
startQuoted(w, q, offset, i) ==
  IF i >= 0 THEN startInner(w, ">", offset + i + 1) ELSE NotDone(q)

\* the inner loop of the start-tag scan over one window: [done, end, q];
\* done with end = length of the tag, or not done with the quote state q
startInner(w, q, offset) ==
  IF ~(offset < Len(w)) THEN NotDone(q)
  ELSE IF q = ">"
       THEN startFound(w, q, wordSkip(w, offset),
                       firstTarget(SliceFrom(w, wordSkip(w, offset))))
       ELSE startQuoted(w, q, offset, IndexByte(SliceFrom(w, offset), q))

\* mutant of startBytes: the slice stops one byte short
startBytesShort(w, end) == SliceTo(w, end - 1)

\* the Bytes of a Start event: the tag up to and including its '>'
startBytes(w, end) == SliceTo(w, end)

\* mutant of truncatedErr: every failed extend inside a token is reported as
\* an unexpected end of input, whatever the source said
truncatedErrUnexpectedEOF(rr) == "ErrUnexpectedEOF"

\* the error a truncated token is reported with: the reader's stored error
truncatedErr(rr) == rr.err

\* extend returned 0 inside a token: no event, the error handed on
Truncated(e) == Return(e.rr, "stateInsideText", EventZero, truncatedErr(e.rr))

RECURSIVE scanStart(_, _, _)
scanStartMore(e, q, offset) ==
  IF e.n = 0 THEN Truncated(e) ELSE scanStart(e.rr, q, offset)

scanStartAt(rr, s) ==
  IF s.done
  THEN Return([rr EXCEPT !.offset = @ + s.end], "stateInsideText",
              MkEvent(startBytes(window(rr), s.end), EventStart), "nil")
  ELSE scanStartMore(extend(rr), s.q, Len(window(rr)))

\* default case: a start tag, ended by the first '>' outside quotes; q is the
\* quote state and offset the scan position carried over an extend
scanStart(rr, q, offset) == scanStartAt(rr, startInner(window(rr), q, offset))

\* where the CDATA search resumes after a miss
cdataNextOffset(w) == Len(w) - 2

RECURSIVE scanCData(_, _)
scanCDataMore(e, offset) == IF e.n = 0 THEN Truncated(e) ELSE scanCData(e.rr, offset)

scanCDataAt(rr, offset, i) ==
  IF i >= 0 THEN TokenFound(rr, offset + i + 3, EventCData)
  ELSE scanCDataMore(extend(rr), cdataNextOffset(window(rr)))

\* case '!' '[': CDATA, ended by "]]>"
scanCData(rr, offset) ==
  IF offset < 0 \/ offset > Len(window(rr)) THEN Fault(rr, "stateInsideText")
  ELSE scanCDataAt(rr, offset, Index(SliceFrom(window(rr), offset), <<"]", "]", ">">>))

\* where the comment search resumes after a miss
commentNextOffset(w) == Len(w) - 2

RECURSIVE scanComment(_, _)
scanCommentMore(e, offset) == IF e.n = 0 THEN Truncated(e) ELSE scanComment(e.rr, offset)

scanCommentAt(rr, offset, i) ==
  IF i >= 0 THEN TokenFound(rr, offset + i + 3, EventComment)
  ELSE scanCommentMore(extend(rr), commentNextOffset(window(rr)))

\* case '!' '-': comment, ended by "-->"
scanComment(rr, offset) ==
  IF offset < 0 \/ offset > Len(window(rr)) THEN Fault(rr, "stateInsideText")
  ELSE scanCommentAt(rr, offset, Index(SliceFrom(window(rr), offset), <<"-", "-", ">">>))

\* the depth the DOCTYPE scan starts a pass over the window with, lv being
\* the depth the previous pass reached
docTypeStartLevel(lv) == 1

RECURSIVE docTypeEnd(_, _, _)
\* the range loop over w[offset:]: 0-based index in s of the '>' that takes
\* the depth lv to zero, else found = FALSE with the depth reached
docTypeEnd(s, i, lv) ==
  IF i > Len(s) THEN [found |-> FALSE, i |-> 0, lv |-> lv]
  ELSE IF s[i] = ">"
       THEN IF lv - 1 = 0 THEN [found |-> TRUE, i |-> i - 1, lv |-> 0]
            ELSE docTypeEnd(s, i + 1, lv - 1)
       ELSE IF s[i] = "<" THEN docTypeEnd(s, i + 1, lv + 1)
            ELSE docTypeEnd(s, i + 1, lv)

RECURSIVE scanDocType(_, _, _)
scanDocTypeMore(e, offset, lv) ==
  IF e.n = 0 THEN Truncated(e) ELSE scanDocType(e.rr, offset, lv)

scanDocTypeAt(rr, offset, d) ==
  IF d.found THEN TokenFound(rr, offset + d.i + 1, EventDocType)
  ELSE scanDocTypeMore(extend(rr), Len(window(rr)), d.lv)

\* case '!' 'D'/'d': DOCTYPE, ended by the '>' that balances its '<'
scanDocType(rr, offset, lv) ==
  IF offset > Len(window(rr)) THEN Fault(rr, "stateInsideText")
  ELSE scanDocTypeAt(rr, offset,
                     docTypeEnd(SliceFrom(window(rr), offset), 1, docTypeStartLevel(lv)))

RECURSIVE scanEndTag(_, _)
scanEndTagMore(e, offset) == IF e.n = 0 THEN Truncated(e) ELSE scanEndTag(e.rr, offset)

scanEndTagAt(rr, offset, i) ==
  IF i >= 0 THEN TokenFound(rr, offset + i + 1, EventEnd)
  ELSE scanEndTagMore(extend(rr), Len(window(rr)))

\* case '/': close tag, ended by the next '>'
scanEndTag(rr, offset) ==
  IF offset > Len(window(rr)) THEN Fault(rr, "stateInsideText")
  ELSE scanEndTagAt(rr, offset, IndexByte(SliceFrom(window(rr), offset), ">"))

\* where the "?>" search resumes after a miss
procInstNextOffset(w) == Len(w) - 1

RECURSIVE scanProcInst(_, _)
scanProcInstMore(e, offset) == IF e.n = 0 THEN Truncated(e) ELSE scanProcInst(e.rr, offset)

scanProcInstAt(rr, offset, i) ==
  IF i >= 0 THEN TokenFound(rr, offset + i + 2, EventProcessingInstruction)
  ELSE scanProcInstMore(extend(rr), procInstNextOffset(window(rr)))

\* case '?': processing instruction, ended by "?>"
scanProcInst(rr, offset) ==
  IF offset < 0 \/ offset > Len(window(rr)) THEN Fault(rr, "stateInsideText")
  ELSE scanProcInstAt(rr, offset, Index(SliceFrom(window(rr), offset), <<"?", ">">>))

\* mutant of unknownBang: the two bytes "<!" are consumed before the error
unknownBangSkipped(rr) ==
  Return([rr EXCEPT !.offset = @ + 2], "stateInsideText", EventZero, "unknown bang type")

\* default of the switch on w[2]: a markup error, the reader left as it is
unknownBang(rr) == Return(rr, "stateInsideText", EventZero, "unknown bang type")

\* the switch on w[2] of a "<!" token
bangDispatch(rr, w) ==
  IF Len(w) < 3 THEN Fault(rr, "stateInsideText")
  ELSE CASE w[3] = "[" -> scanCData(rr, 3)
         [] w[3] = "-" -> scanComment(rr, 3)
         [] w[3] \in {"D", "d"} -> scanDocType(rr, 2, 1)
         [] OTHER -> unknownBang(rr)

\* case '!': dispatch on the third byte, after making sure it is there
scanBangAt(e) == IF e.n = 0 THEN Truncated(e) ELSE bangDispatch(e.rr, window(e.rr))

scanBang(rr) ==
  scanBangAt(IF Len(window(rr)) < 3 THEN extend(rr) ELSE [rr |-> rr, n |-> 1])

\* the switch on w[1], the byte after '<'
markupDispatch(rr, w) ==
  IF Len(w) < 2 THEN Fault(rr, "stateInsideText")
  ELSE CASE w[2] = "!" -> scanBang(rr)
         [] w[2] = "/" -> scanEndTag(rr, 2)
         [] w[2] = "?" -> scanProcInst(rr, 2)
         [] OTHER -> scanStart(rr, ">", 1)

stateInsideMarkupAt(e) == IF e.n = 0 THEN Truncated(e) ELSE markupDispatch(e.rr, window(e.rr))

\* stateInsideMarkup: the window starts at a '<'; classify and return the token
stateInsideMarkup(rr) ==
  stateInsideMarkupAt(IF rr.offset + 1 >= Len(rr.data) THEN extend(rr) ELSE [rr |-> rr, n |-> 1])

\* ---------------------------------------------------------- stateInsideText
\* the state function left after the source reports io.EOF
stateAfterEOF == "stateDone"

\* stateInsideText once readText has returned t; st is the current state
\* function, kept when the call returns a source error
stateInsideTextAt(t, st) ==
  IF t.fault THEN Fault(t.rr, st)
  ELSE IF t.err = "EOF"
  THEN IF t.end = 0
       THEN Return(t.rr, stateAfterEOF, MkEvent(<<>>, EventEOF), "nil")
       ELSE Return([t.rr EXCEPT !.offset = @ + Len(window(t.rr))], stateAfterEOF,
                   MkEvent(window(t.rr), EventText), "nil")
  ELSE IF t.err # "nil" THEN Return(t.rr, st, EventZero, t.err)
  ELSE IF t.end = 0 THEN stateInsideMarkup(t.rr)
  ELSE IF t.end > Len(window(t.rr)) THEN Fault(t.rr, st)
  ELSE Return([t.rr EXCEPT !.offset = @ + t.end], "stateInsideMarkup",
              MkEvent(SliceTo(window(t.rr), t.end), EventText), "nil")

\* stateInsideText (and stateInit, which only calls it)
stateInsideText(rr, st) == stateInsideTextAt(readText(rr, 0), st)

\* mutant of stateDone: the end of input is reported as the error io.EOF
stateDoneAsError(rr) == Return(rr, "stateDone", EventZero, "EOF")

\* stateDone: EventEOF, nothing else touched
stateDone(rr) == Return(rr, "stateDone", MkEvent(<<>>, EventEOF), "nil")

\* Reader.Event: run the current state function
Event(rr, st) ==
  CASE st \in {"stateInit", "stateInsideText"} -> stateInsideText(rr, st)
    [] st = "stateInsideMarkup" -> stateInsideMarkup(rr)
    [] st = "stateDone" -> stateDone(rr)

\* ------------------------------------------------------------------ Unescape
\* the byte of value n: a character where the model has one, a name otherwise
Byte(n) ==
  CASE n = 9 -> "\t"
    [] n = 10 -> "\n"
    [] n = 13 -> "\r"
    [] n >= 32 /\ n <= 126 -> Ascii[n - 31]
    [] OTHER -> "byte" \o ToString(n)

\* Go's copy(b[at:], src): the bytes of src written over b from index at, as
\* many as fit
Copy(b, at, src) ==
  [k \in 1..Len(b) |->
     IF at < k /\ k <= at + Min(Len(b) - at, Len(src)) THEN src[k - at] ELSE b[k]]

\* what Unescape returns, (b[:n], nil) or (nil, err), and mem, the bytes of the
\* caller's slice as the call leaves them: Unescape writes into b
UnescapeOK(b, n) == [b |-> SliceTo(b, n), err |-> "nil", mem |-> b]

UnescapeError(b, msg) == [b |-> <<>>, err |-> msg, mem |-> b]

\* a write past the end of b: a runtime panic
UnescapeFault(b) == [b |-> <<>>, err |-> "panic", mem |-> b]

\* the ([]byte, error) pair handed back to the caller
UnescapeReturned(r) == [b |-> r.b, err |-> r.err]

\* the value of a digit byte in strconv.ParseUint, 255 for a byte that is none
digitVal(c) ==
  CASE c \in {"0", "1", "2", "3", "4", "5", "6", "7", "8", "9"} -> Ord(c) - 48
    [] c \in {"a", "b", "c", "d", "e", "f", "g", "h", "i", "j", "k", "l", "m",
              "n", "o", "p", "q", "r", "s", "t", "u", "v", "w", "x", "y", "z"} -> Ord(c) - 87
    [] c \in {"A", "B", "C", "D", "E", "F", "G", "H", "I", "J", "K", "L", "M",
              "N", "O", "P", "Q", "R", "S", "T", "U", "V", "W", "X", "Y", "Z"} -> Ord(c) - 55
    [] OTHER -> 255

\* one digit more: x * base + d on 32 bits, x kept as two 16-bit halves;
\* a value past 2^32 - 1 is a range error
parseStep(x, base, d) ==
  IF x.err # "nil" THEN x
  ELSE IF d >= base THEN [hi |-> 0, lo |-> 0, err |-> "ErrSyntax"]
  ELSE IF x.hi * base + ((x.lo * base + d) \div 65536) >= 65536
  THEN [hi |-> 0, lo |-> 0, err |-> "ErrRange"]
  ELSE [hi |-> x.hi * base + ((x.lo * base + d) \div 65536),
        lo |-> (x.lo * base + d) % 65536,
        err |-> "nil"]

RECURSIVE parseDigits(_, _, _, _)
parseDigits(s, base, k, x) ==
  IF k > Len(s) THEN x ELSE parseDigits(s, base, k + 1, parseStep(x, base, digitVal(s[k])))

\* strconv.ParseUint(s, base, 32)
ParseUint(s, base) ==
  IF s = <<>> THEN [hi |-> 0, lo |-> 0, err |-> "ErrSyntax"]
  ELSE parseDigits(s, base, 1, [hi |-> 0, lo |-> 0, err |-> "nil"])

\* utf8.RuneError
RuneError == 65533

\* rune(x) as utf8.EncodeRune takes it: the code point, or RuneError for a
\* value that is negative as an int32, past 0x10FFFF, or a surrogate
runeOf(x) ==
  IF x.hi > 16 THEN RuneError
  ELSE IF x.hi = 0 /\ x.lo >= 55296 /\ x.lo <= 57343 THEN RuneError
  ELSE x.hi * 65536 + x.lo

\* utf8.EncodeRune: the UTF-8 bytes of the code point r
EncodeRune(r) ==
  IF r <= 127 THEN <<Byte(r)>>
  ELSE IF r <= 2047 THEN <<Byte(192 + (r \div 64)), Byte(128 + (r % 64))>>
  ELSE IF r <= 65535
  THEN <<Byte(224 + (r \div 4096)), Byte(128 + ((r \div 64) % 64)), Byte(128 + (r % 64))>>
  ELSE <<Byte(240 + (r \div 262144)), Byte(128 + ((r \div 4096) % 64)),
         Byte(128 + ((r \div 64) % 64)), Byte(128 + (r % 64))>>

\* mutant of lookahead: the ';' is looked for twice as far
lookaheadWide == 13 + 13

\* the bound of the scan for ';': i runs from 2 to lookahead - 1
lookahead == 13

\* the least i in 2..lookahead-1 with p+i < len(b) and b[p+i] = ';', 0 if none
semicolonAt(b, p) ==
  LeastOr({i \in 2..(lookahead - 1) : p + i < Len(b) /\ b[p + i + 1] = ";"}, 0)

\* escaped = b[p+1 : p+i], nil when no ';' was found
escapedOf(b, p, i) == IF i = 0 THEN <<>> ELSE SubSeq(b, p + 2, p + i)

\* mutant of namedEntity: the entity gt decodes to '<'
namedEntityGtAsLt(escaped) ==
  CASE escaped = <<"l", "t">> -> "<"
    [] escaped = <<"g", "t">> -> "<"
    [] escaped = <<"a", "m", "p">> -> "&"
    [] escaped = <<"a", "p", "o", "s">> -> "'"
    [] escaped = <<"q", "u", "o", "t">> -> "\""
    [] OTHER -> "none"

\* the switch on string(escaped): the byte of a named entity, "none" for the
\* default case
namedEntity(escaped) ==
  CASE escaped = <<"l", "t">> -> "<"
    [] escaped = <<"g", "t">> -> ">"
    [] escaped = <<"a", "m", "p">> -> "&"
    [] escaped = <<"a", "p", "o", "s">> -> "'"
    [] escaped = <<"q", "u", "o", "t">> -> "\""
    [] OTHER -> "none"

\* after the last reference: the bytes from begin on are moved down to cur
unescapeTail(b, begin, cur) ==
  IF Len(b) # begin
  THEN UnescapeOK(Copy(b, cur, SliceFrom(b, begin)), cur + (Len(b) - begin))
  ELSE UnescapeOK(b, cur)

RECURSIVE unescapeLoop(_, _, _, _)
\* the end of one round of the loop: i is the index of the next '&' in b[begin:]
unescapeAgain(b, begin, cur, i) ==
  IF i >= 0 THEN unescapeLoop(b, begin, cur, begin + i) ELSE unescapeTail(b, begin, cur)

\* begin = p + len(escaped) + 2, then the search for the next '&'
unescapeNext(b, begin, cur) == unescapeAgain(b, begin, cur, IndexByte(SliceFrom(b, begin), "&"))

\* cur += utf8.EncodeRune(b[cur:], rune(x)), enc being the encoded bytes
unescapeEncoded(b, cur, p, escaped, enc) ==
  IF cur + Len(enc) > Len(b) THEN UnescapeFault(b)
  ELSE unescapeNext(Copy(b, cur, enc), p + Len(escaped) + 2, cur + Len(enc))

\* a numeric reference whose digits parsed as x
unescapeNumeric(b, cur, p, escaped, x) ==
  IF x.err # "nil" THEN UnescapeError(b, "invalid char reference")
  ELSE unescapeEncoded(b, cur, p, escaped, EncodeRune(runeOf(x)))

\* a named reference decoding to the byte c
unescapeNamed(b, cur, p, escaped, c) ==
  IF c = "none" THEN UnescapeError(b, "invalid escape sequence")
  ELSE unescapeNext([b EXCEPT ![cur + 1] = c], p + Len(escaped) + 2, cur + 1)

\* the decoding of escaped, written at cur
unescapeDecode(b, cur, p, escaped) ==
  IF escaped[1] = "#"
  THEN unescapeNumeric(b, cur, p, escaped,
                       IF escaped[2] = "x" THEN ParseUint(SliceFrom(escaped, 2), 16)
                       ELSE ParseUint(SliceFrom(escaped, 1), 10))
  ELSE unescapeNamed(b, cur, p, escaped, namedEntity(escaped))

\* one round of the loop after the scan for ';'
unescapeEscaped(b, begin, cur, p, escaped) ==
  IF Len(escaped) <= 1 THEN UnescapeError(b, "invalid escape sequence")
  ELSE IF cur # p /\ begin # p
  THEN unescapeDecode(Copy(b, cur, SubSeq(b, begin + 1, p)), cur + (p - begin), p, escaped)
  ELSE unescapeDecode(b, cur, p, escaped)

\* one round of the loop of Unescape: b is decoded up to begin into b[:cur],
\* p is the index of the next '&'
unescapeLoop(b, begin, cur, p) ==
  unescapeEscaped(b, begin, cur, p, escapedOf(b, p, semicolonAt(b, p)))

\* mutant of unescapeNone: CR LF and CR are turned into LF on the way out
unescapeNoneNormalized(b) ==
  [b |-> SelectSeq([k \in 1..Len(b) |->
                      IF b[k] = "\r" THEN (IF k < Len(b) /\ b[k + 1] = "\n" THEN "" ELSE "\n")
                      ELSE b[k]],
                   LAMBDA c : c # ""),
   err |-> "nil", mem |-> b]

\* no '&' in b: b is returned as it is
unescapeNone(b) == UnescapeOK(b, Len(b))

\* Unescape, p being bytes.IndexByte(b, '&')
unescapeFrom(b, p) == IF p < 0 THEN unescapeNone(b) ELSE unescapeLoop(b, 0, p, p)

Unescape(b) == unescapeFrom(b, IndexByte(b, "&"))

\* ---------------------------------------------------------------------- Name
\* the whitespace table: space, CR, LF, tab
whitespace(c) == c \in {" ", "\r", "\n", "\t"}

\* the names and remainders Name returns
NameResult(name, rest) == [name |-> name, rest |-> rest]

\* the loop of Name over the trimmed b: i is the index of the first
\* whitespace byte, -1 when there is none
nameSplitAt(b, i) ==
  IF i >= 0 THEN NameResult(SliceTo(b, i), SliceFrom(b, i + 1)) ELSE NameResult(b, <<>>)

\* the index of the first whitespace byte of b, -1 when there is none
firstWhitespace(b) ==
  LeastOr({i \in 0..(Len(b) - 1) : whitespace(b[i + 1])}, -1)

\* if len(b) > 1 && b[len(b)-1] == '>' { b = b[:len(b)-1] }
trimGt(b) == IF Len(b) > 1 /\ b[Len(b)] = ">" THEN SliceTo(b, Len(b) - 1) ELSE b

\* if len(b) > 1 && b[0] == '<' { b = b[1:] }
trimLt(b) == IF Len(b) > 1 /\ b[1] = "<" THEN SliceFrom(b, 1) ELSE b

nameOfTrimmed(b) == nameSplitAt(b, firstWhitespace(b))

\* gosax.Name
Name(b) == nameOfTrimmed(trimGt(trimLt(b)))

\* xmlb NameBytes{name, p}.Local(): name[p:]
Local(name, p) == SliceFrom(name, p)

\* xmlb Token.Name(): the NameBytes of name, i being bytes.IndexByte(name, ':')
tokenNameAt(name, i) == IF i < 0 THEN [b |-> name, p |-> 0] ELSE [b |-> name, p |-> i + 1]

tokenNameOf(name) == tokenNameAt(name, IndexByte(name, ":"))

\* xmlb Token.Name() on a token of bytes b
TokenName(b) == tokenNameOf(Name(b).name)

\* ------------------------------------------------------------- NextAttribute
\* Attribute{Key, Value}; a nil slice is the empty sequence
Attribute(key, value) == [Key |-> key, Value |-> value]

\* what NextAttribute returns: (Attribute, remaining bytes, error)
AttrResult(attr, rest, err) == [attr |-> attr, rest |-> rest, err |-> err]

\* b[i] read with i = len(b): a runtime panic
AttrFault == AttrResult(Attribute(<<>>, <<>>), <<>>, "panic")

\* for ; i < len(b) && whitespace[b[i]]; i++ {}: the index the loop stops at
skipWhitespace(b, i) ==
  LeastOr({j \in i..(Len(b) - 1) : ~whitespace(b[j + 1])}, Max(i, Len(b)))

\* for ; i < len(b) && !whitespace[b[i]] && b[i] != '='; i++ {}
skipKey(b, i) ==
  LeastOr({j \in i..(Len(b) - 1) : whitespace(b[j + 1]) \/ b[j + 1] = "="}, Max(i, Len(b)))

\* mutant of valueEnd: the closing quote is left to the remainder
valueEndBeforeQuote(b, i, quote) == i + 1 + IndexByte(SliceFrom(b, i + 1), quote)

\* valueEnd := i + 1 + bytes.IndexByte(b[i+1:], quote) + 1
valueEnd(b, i, quote) == i + 1 + IndexByte(SliceFrom(b, i + 1), quote) + 1

\* the quoted value starting at b[i]: value b[i:valueEnd], rest b[valueEnd:]
attrQuoted(b, key, i, end) ==
  AttrResult(Attribute(key, SubSeq(b, i + 1, end)), SliceFrom(b, end), "nil")

\* after '=' and the whitespace behind it, i being the index reached: b[i] is
\* read without a check against len(b)
attrValue(b, key, i) ==
  IF i >= Len(b) THEN AttrFault
  ELSE IF b[i + 1] = "\"" THEN attrQuoted(b, key, i, valueEnd(b, i, "\""))
  ELSE IF b[i + 1] = "'" THEN attrQuoted(b, key, i, valueEnd(b, i, "'"))
  ELSE AttrResult(Attribute(<<>>, <<>>), <<>>, "invalid attribute value")

\* after the key and the whitespace behind it, i being the index reached
attrAfterKey(b, key, i) ==
  IF i = Len(b) THEN AttrResult(Attribute(key, <<>>), <<>>, "nil")
  ELSE IF b[i + 1] # "=" THEN AttrResult(Attribute(key, <<>>), SliceFrom(b, i), "nil")
  ELSE attrValue(b, key, skipWhitespace(b, i + 1))

\* the key read from keyStart up to i, the index skipKey stopped at
attrKey(b, keyStart, i) ==
  IF i = Len(b) THEN AttrResult(Attribute(SliceFrom(b, keyStart), <<>>), <<>>, "nil")
  ELSE attrAfterKey(b, SubSeq(b, keyStart + 1, i), skipWhitespace(b, i))

\* after the leading whitespace, i being the index reached
attrFrom(b, i) ==
  IF i = Len(b) THEN AttrResult(Attribute(<<>>, <<>>), <<>>, "nil")
  ELSE attrKey(b, i, skipKey(b, i))

\* gosax.NextAttribute
NextAttribute(b) == attrFrom(b, skipWhitespace(b, 0))

\* ----------------------------------------------------- encoding/xml bridge
\* xml.Name{Space, Local}, i being bytes.IndexByte(b, ':')
xmlNameAt(b, i) ==
  IF i >= 0 THEN [Space |-> SliceTo(b, i), Local |-> SliceFrom(b, i + 1)]
  ELSE [Space |-> <<>>, Local |-> b]

xmlName(b) == xmlNameAt(b, IndexByte(b, ":"))

\* what StartElement returns: (xml.StartElement{Name, Attr}, error)
ElementResult(name, attrs, err) == [Name |-> name, Attr |-> attrs, err |-> err]

\* a slice expression out of range: a runtime panic
ElementFault == ElementResult(xmlName(<<>>), <<>>, "panic")

\* string(attr.Value[1 : len(attr.Value)-1]); callers check len(value) >= 2
attrText(value) == SubSeq(value, 2, Len(value) - 1)

RECURSIVE startElementLoop(_, _, _)
\* the body of the loop of StartElement, r being what NextAttribute returned
startElementAttr(name, attrs, r) ==
  IF r.err = "panic" THEN ElementFault
  ELSE IF r.err # "nil" THEN ElementResult(xmlName(<<>>), <<>>, r.err)
  ELSE IF Len(r.attr.Value) < 2 THEN ElementFault
  ELSE startElementLoop(name,
                        Append(attrs, [Name |-> xmlName(r.attr.Key),
                                       Value |-> attrText(r.attr.Value)]),
                        r.rest)

\* for len(b) > 0 { attr, b, err = NextAttribute(b); ... }
startElementLoop(name, attrs, b) ==
  IF Len(b) > 0 THEN startElementAttr(name, attrs, NextAttribute(b))
  ELSE ElementResult(name, attrs, "nil")

startElementOf(n) == startElementLoop(xmlName(n.name), <<>>, n.rest)

\* gosax.StartElement
StartElement(b) == startElementOf(Name(b))

\* ------------------------------------------------------------ xmlb.Decoder
\* the token kinds of package xmlb
StartElementKind == 1
EndElementKind == 2
CharDataKind == 3
ProcInstKind == 4
CommentKind == 5
DirectiveKind == 6

\* Token.Type: the kind of the token an event is
TokenType(ev) ==
  CASE ev.value = EventStart -> StartElementKind
    [] ev.value = EventEnd -> EndElementKind
    [] ev.value \in {EventText, EventCData} -> CharDataKind
    [] ev.value = EventProcessingInstruction -> ProcInstKind
    [] ev.value = EventComment -> CommentKind
    [] ev.value = EventDocType -> DirectiveKind
    [] ev.value = EventEOF -> 0

\* bytes.TrimPrefix and bytes.TrimSuffix
TrimPrefix(b, prefix) ==
  IF Len(b) >= Len(prefix) /\ SubSeq(b, 1, Len(prefix)) = prefix
  THEN SliceFrom(b, Len(prefix)) ELSE b

TrimSuffix(b, suffix) ==
  IF Len(b) >= Len(suffix) /\ SubSeq(b, Len(b) - Len(suffix) + 1, Len(b)) = suffix
  THEN SliceTo(b, Len(b) - Len(suffix)) ELSE b

\* gosax.CharData: return Unescape(b)
CharData(b) == Unescape(b)

\* the case gosax.EventCData of Token.CharData: the delimiters are trimmed
\* and nothing is written
charDataTrimmed(b) ==
  [b |-> TrimSuffix(TrimPrefix(b, <<"<", "!", "[", "C", "D", "A", "T", "A", "[">>),
                    <<"]", "]", ">">>),
   err |-> "nil", mem |-> b]

\* switch t.Type(): the value the cases of Token.CharData are compared with
\* is a token kind of package xmlb
charDataKind(ev) == TokenType(ev)

\* Token.CharData, kind being the value of t.Type(): the cases are the event
\* types gosax.EventText and gosax.EventCData, any other value panics
charDataOf(ev, kind) ==
  IF kind = EventText THEN CharData(ev.Bytes)
  ELSE IF kind = EventCData THEN charDataTrimmed(ev.Bytes)
  ELSE UnescapeFault(ev.Bytes)

TokenCharData(ev) == charDataOf(ev, charDataKind(ev))

\* the fields t and err of a Decoder: no token held (nil), no error stored
DecoderZero == [t |-> <<>>, err |-> "nil"]

\* what a method of the Decoder returns: the Decoder, the Reader and its next
\* state function as the call leaves them, the (Token, error) pair, and
\* whether the call of Event inside it faulted
DecoderReturn(d, rr, st, tok, err) ==
  [d |-> d, rr |-> rr, state |-> st, tok |-> tok, err |-> err, fault |-> FALSE]

DecoderFault(d, r) ==
  [d |-> d, rr |-> r.rr, state |-> r.state, tok |-> EventZero, err |-> "nil", fault |-> TRUE]

\* if err == nil && ev.Type() == gosax.EventEOF { err = io.EOF }
eventErr(r) == IF r.err = "nil" /\ r.ev.value = EventEOF THEN "EOF" ELSE r.err

\* Token after the call r of Event: the error is returned, not stored
tokenRead(d, r) ==
  IF r.fault THEN DecoderFault(d, r)
  ELSE IF eventErr(r) # "nil" THEN DecoderReturn(d, r.rr, r.state, EventZero, eventErr(r))
  ELSE DecoderReturn(d, r.rr, r.state, r.ev, "nil")

\* mutant of tokenHeld: the held token is returned and kept
tokenHeldKept(d, rr, st) == DecoderReturn(d, rr, st, d.t[1], "nil")

\* Token with a token held: t := *d.t; d.t = nil; return t, nil
tokenHeld(d, rr, st) == DecoderReturn([d EXCEPT !.t = <<>>], rr, st, d.t[1], "nil")

\* Decoder.Token
DecoderToken(d, rr, st) ==
  IF d.err # "nil" THEN DecoderReturn(d, rr, st, EventZero, d.err)
  ELSE IF d.t # <<>> THEN tokenHeld(d, rr, st)
  ELSE tokenRead(d, Event(rr, st))

\* Peek after the call r of Event: the error is stored, or the token held
peekRead(d, r) ==
  IF r.fault THEN DecoderFault(d, r)
  ELSE IF eventErr(r) # "nil"
    THEN DecoderReturn([d EXCEPT !.err = eventErr(r)], r.rr, r.state, EventZero, eventErr(r))
  ELSE DecoderReturn([d EXCEPT !.t = <<r.ev>>], r.rr, r.state, r.ev, "nil")

\* Decoder.Peek
DecoderPeek(d, rr, st) ==
  IF d.err # "nil" THEN DecoderReturn(d, rr, st, EventZero, d.err)
  ELSE IF d.t = <<>> THEN peekRead(d, Event(rr, st))
  ELSE DecoderReturn(d, rr, st, d.t[1], "nil")

\* what Text returns: the Decoder, the Reader and its next state function
\* as the call leaves them, and the (string, error) pair
TextReturn(p, d, rr, text, err) ==
  [d |-> d, rr |-> rr, state |-> p.state, text |-> text, err |-> err,
   fault |-> p.fault \/ err = "panic"]

\* the token held by the Decoder once CharData has decoded its Bytes in
\* place: the bytes are those Unescape left in the slice
heldDecoded(d, mem) == [d EXCEPT !.t = <<[@[1] EXCEPT !.Bytes = mem]>>]

\* the buffer of the Reader once CharData has decoded the Bytes of the held
\* token in place: the token is the slice that ends at the read offset
dataDecoded(rr, mem) == [rr EXCEPT !.data = Copy(@, rr.offset - Len(mem), mem)]

\* Text on a CharData token, c being what t.CharData() returned
textDecoded(p, c) ==
  TextReturn(p, heldDecoded(p.d, c.mem), dataDecoded(p.rr, c.mem),
             IF c.err = "nil" THEN c.b ELSE <<>>, c.err)

\* Text after the call p of Peek
textPeeked(p) ==
  IF p.fault \/ p.err # "nil" THEN TextReturn(p, p.d, p.rr, <<>>, p.err)
  ELSE IF TokenType(p.tok) # CharDataKind THEN TextReturn(p, p.d, p.rr, <<>>, "nil")
  ELSE textDecoded(p, TokenCharData(p.tok))

\* Decoder.Text
DecoderText(d, rr, st) == textPeeked(DecoderPeek(d, rr, st))

\* what Skip returns: as DecoderReturn, with the tokens its calls of Token
\* returned in place of a token
SkipReturn(t, err, toks) ==
  [d |-> t.d, rr |-> t.rr, state |-> t.state, toks |-> toks, err |-> err, fault |-> t.fault]

RECURSIVE skipLoop(_, _, _, _, _)
\* the body of the loop of Skip, t being what Token returned
skipToken(t, depth, toks) ==
  IF t.fault THEN SkipReturn(t, "nil", toks)
  ELSE IF t.err # "nil" THEN SkipReturn(t, t.err, toks)
  ELSE IF TokenType(t.tok) = StartElementKind
    THEN skipLoop(t.d, t.rr, t.state, depth + 1, Append(toks, t.tok))
  ELSE IF TokenType(t.tok) = EndElementKind
    THEN IF depth = 0 THEN SkipReturn(t, "nil", Append(toks, t.tok))
         ELSE skipLoop(t.d, t.rr, t.state, depth - 1, Append(toks, t.tok))
  ELSE skipLoop(t.d, t.rr, t.state, depth, Append(toks, t.tok))

\* for { tok, err := d.Token(); ... }
skipLoop(d, rr, st, depth, toks) == skipToken(DecoderToken(d, rr, st), depth, toks)

\* Decoder.Skip
DecoderSkip(d, rr, st) == skipLoop(d, rr, st, 0, <<>>)

\* ------------------------------------------------------------------ inputs
\* <a><b>V</b><c/></a>: the self-closing example of the spec
DocSelfClosing ==
  <<"<", "a", ">", "<", "b", ">", "V", "<", "/", "b", ">", "<", "c", "/", ">", "<", "/",
    "a", ">">>

\* <a>abcd</a>: a text run of four bytes inside an element
DocLongText ==
  <<"<", "a", ">", "a", "b", "c", "d", "<", "/", "a", ">">>

\* abcde<x>: a leading text run followed by a start tag
DocTextThenTag ==
  <<"a", "b", "c", "d", "e", "<", "x", ">">>

\* <a b=">'" c='>"'>t</a>: attribute values holding '>' and the other quote
DocQuoted ==
  <<"<", "a", " ", "b", "=", "\"", ">", "'", "\"", " ", "c", "=", "'", ">", "\"", "'",
    ">", "t", "<", "/", "a", ">">>

\* <element a="&gt;" b='q'>: a start tag of three 8-byte words: the first holds no
\* quote or '>', the second holds a quoted entity
DocAttrs ==
  <<"<", "e", "l", "e", "m", "e", "n", "t", " ", "a", "=", "\"", "&", "g", "t", ";",
    "\"", " ", "b", "=", "'", "q", "'", ">">>

\* <![CDATA[x]]]>y: a CDATA section whose content ends in ']'
DocCData ==
  <<"<", "!", "[", "C", "D", "A", "T", "A", "[", "x", "]", "]", "]", ">", "y">>

\* <!--a--->b: a comment whose content ends in '-'
DocComment ==
  <<"<", "!", "-", "-", "a", "-", "-", "-", ">", "b">>

\* <!-->a-->: a comment whose opening delimiter overlaps a '-->'
DocShortComment ==
  <<"<", "!", "-", "-", ">", "a", "-", "-", ">">>

\* <?p q??>z: a processing instruction whose content ends in '?'
DocProcInst ==
  <<"<", "?", "p", " ", "q", "?", "?", ">", "z">>

\* <?>x?>: a processing instruction whose opening delimiter overlaps a '?>'
DocShortProcInst ==
  <<"<", "?", ">", "x", "?", ">">>

\* <!DOCTYPE r [ <!E a> ]><r>: a DOCTYPE with a nested internal subset, then the root
DocDocType ==
  <<"<", "!", "D", "O", "C", "T", "Y", "P", "E", " ", "r", " ", "[", " ", "<", "!", "E",
    " ", "a", ">", " ", "]", ">", "<", "r", ">">>

\* a<!x>b: an unknown <! construct
DocUnknownBang ==
  <<"a", "<", "!", "x", ">", "b">>

\* (empty): the empty input
DocEmpty ==
  <<>>

\* abcd: text only
DocTextOnly ==
  <<"a", "b", "c", "d">>

\* x<a b="c: ends inside a quoted attribute value
DocCutStart ==
  <<"x", "<", "a", " ", "b", "=", "\"", "c">>

\* <ab: ends inside a start tag
DocCutStartName ==
  <<"<", "a", "b">>

\* <a></a: ends inside an end tag
DocCutEnd ==
  <<"<", "a", ">", "<", "/", "a">>

\* <!--x-: ends inside a comment
DocCutComment ==
  <<"<", "!", "-", "-", "x", "-">>

\* <![CDATA[x]]: ends inside a CDATA section
DocCutCData ==
  <<"<", "!", "[", "C", "D", "A", "T", "A", "[", "x", "]", "]">>

\* <?p ?: ends inside a processing instruction
DocCutProcInst ==
  <<"<", "?", "p", " ", "?">>

\* <!D [<!E>: ends inside a DOCTYPE
DocCutDocType ==
  <<"<", "!", "D", " ", "[", "<", "!", "E", ">">>

\* a<: ends right after '<'
DocCutLt ==
  <<"a", "<">>

\* <!: ends right after '<!'
DocCutBang ==
  <<"<", "!">>

\* the inputs that are well-formed XML content
WellFormed ==
  {DocSelfClosing,
   DocLongText,
   DocQuoted,
   DocAttrs,
   DocCData,
   DocComment,
   DocProcInst,
   DocDocType,
   DocTextOnly, DocEmpty}

\* every input a behaviour may start with
Docs ==
  {DocSelfClosing,
   DocLongText,
   DocTextThenTag,
   DocQuoted,
   DocAttrs,
   DocCData,
   DocComment,
   DocShortComment,
   DocProcInst,
   DocShortProcInst,
   DocDocType,
   DocUnknownBang,
   DocEmpty,
   DocTextOnly,
   DocCutStart,
   DocCutStartName,
   DocCutEnd,
   DocCutComment,
   DocCutCData,
   DocCutProcInst,
   DocCutDocType,
   DocCutLt,
   DocCutBang}

RECURSIVE CutSets(_, _)
\* the sets of at most k cut positions inside an input of n bytes
CutSets(n, k) ==
  IF k = 0 THEN {{}}
  ELSE LET smaller == CutSets(n, k - 1)
       IN smaller \cup {p \cup {c} : p \in smaller, c \in 1..(n - 1)}

\* the read plan "k bytes per read"
Uniform(n, k) == {c \in 1..(n - 1) : c % k = 0}

\* the read plans explored for an input of n bytes: the whole input in one
\* read ({}), up to MaxCuts cuts anywhere, or 1..MaxChunk bytes per read
CutPlans(n) == CutSets(n, MaxCuts) \cup {Uniform(n, k) : k \in 1..MaxChunk}

\* NewReader's buffer size
DefaultBufSize == 2 * 1024 * 1024

\* ------------------------------------------------------------ state machine
\* the input holds a "/>": the only inputs on which the self-closing option
\* can make a difference, so the only ones it is switched on for
HasSelfClosingTag(doc) == \E i \in 1..(Len(doc) - 1) : doc[i] = "/" /\ doc[i + 1] = ">"

\* no function of the package has been called
NoCall == [fn |-> "none", arg |-> <<>>, out |-> <<>>]

\* no call has returned yet
NoReturn == [ev |-> EventZero, err |-> "none"]

Init ==
  /\ input \in Docs
  /\ srcErr \in {"EOF", "ErrIO"}
  /\ EmitSelfClosingTag \in (IF HasSelfClosingTag(input) THEN BOOLEAN ELSE {FALSE})
  /\ \E cuts \in CutPlans(Len(input)), bufSize \in {SmallBuf, DefaultBufSize} :
       reader = NewReaderBuf(cuts, bufSize)
  /\ state = "stateInit"
  /\ ret = NoReturn
  /\ term = NoReturn
  /\ events = <<>>
  /\ faulted = FALSE
  /\ after = 0
  /\ resets = 0
  /\ storage = reader.cap
  /\ call = NoCall
  /\ decoder = DecoderZero

\* the (Event, error) pair a call hands back; a fault hands back nothing
Returned(r) == [ev |-> r.ev, err |-> IF r.fault THEN "panic" ELSE r.err]

\* a return after which a consumer stops: EventEOF, an error or a fault
IsTerminal(rt) == rt.err # "nil" \/ rt.ev.value = EventEOF

\* the consumer takes the return rt of a call that left the reader as r
Deliver(r, rt) ==
  /\ reader' = r.rr
  /\ state' = r.state
  /\ faulted' = r.fault
  /\ ret' = rt
  /\ events' = IF IsTerminal(rt) THEN events ELSE Append(events, rt.ev)
  /\ term' = IF term = NoReturn /\ IsTerminal(rt) THEN rt ELSE term
  /\ after' = IF term # NoReturn THEN after + 1 ELSE after

\* the call r seen by the consumer
Call(r) == Deliver(r, Returned(r))

\* one call of Reader.Event by the consumer
CallEvent ==
  /\ ~faulted
  /\ after < MaxAfter
  /\ Call(Event(reader, state))
  /\ UNCHANGED <<input, srcErr, EmitSelfClosingTag, resets, storage, call, decoder>>

\* the sources a Reader is rebound to: a document, how its reads end, and a
\* read plan (one read, or 1 or 2 bytes per read)
ResetDocs == {DocLongText, DocTextThenTag}

ResetPlans(n) == {{}, Uniform(n, 1), Uniform(n, 2)}

\* one call of Reader.Reset by the consumer, in any state of the Reader: the
\* storage is kept, the new source bound, stateInit scheduled; the consumer
\* starts a new record of what is returned
CallReset ==
  /\ ~faulted
  /\ resets < MaxResets
  /\ input' \in ResetDocs
  /\ srcErr' \in {"EOF", "ErrIO"}
  /\ \E cuts \in ResetPlans(Len(input')) : reader' = Reset(reader, cuts)
  /\ state' = "stateInit"
  /\ storage' = reader.cap
  /\ resets' = resets + 1
  /\ ret' = NoReturn
  /\ term' = NoReturn
  /\ events' = <<>>
  /\ faulted' = FALSE
  /\ after' = 0
  /\ UNCHANGED <<EmitSelfClosingTag, call, decoder>>

Next == CallEvent \/ CallReset

Spec == Init /\ [][Next]_vars

\* ------------------------------------------------------ the pure functions
\* the Reader is not used by the calls of Unescape and Name
readerVars ==
  <<input, srcErr, EmitSelfClosingTag, reader, state, ret, term, events, faulted, after,
    resets, storage, decoder>>

ReaderUnused ==
  /\ input = DocEmpty
  /\ srcErr = "EOF"
  /\ EmitSelfClosingTag = FALSE
  /\ reader = NewReaderBuf({}, DefaultBufSize)
  /\ state = "stateInit"
  /\ ret = NoReturn
  /\ term = NoReturn
  /\ events = <<>>
  /\ faulted = FALSE
  /\ after = 0
  /\ resets = 0
  /\ storage = DefaultBufSize
  /\ decoder = DecoderZero

\* the pieces an input of Unescape is made of: literal bytes,
Literals == {<<"a">>, <<"\r">>, <<"\n">>}

\* well-formed references,
RefLt ==
  <<"&", "l", "t", ";">>

RefGt ==
  <<"&", "g", "t", ";">>

RefAmp ==
  <<"&", "a", "m", "p", ";">>

RefApos ==
  <<"&", "a", "p", "o", "s", ";">>

RefQuot ==
  <<"&", "q", "u", "o", "t", ";">>

RefDec ==
  <<"&", "#", "6", "0", ";">>

RefHex ==
  <<"&", "#", "x", "3", "c", ";">>

RefTwoBytes ==
  <<"&", "#", "x", "E", "9", ";">>

RefThreeBytes ==
  <<"&", "#", "x", "2", "0", "A", "C", ";">>

RefFourBytes ==
  <<"&", "#", "x", "1", "F", "6", "0", "0", ";">>

WellFormedRefs ==
  {RefLt, RefGt, RefAmp, RefApos, RefQuot, RefDec, RefHex, RefTwoBytes, RefThreeBytes, RefFourBytes}

\* references that are malformed:
\* an empty body
RefEmpty ==
  <<"&", ";">>

\* no hex digit
RefNoDigits ==
  <<"&", "#", "x", ";">>

\* bytes that are no hex digits
RefBadDigits ==
  <<"&", "#", "x", "Z", "Z", ";">>

\* a name that is none of the five
RefUnknown ==
  <<"&", "f", "o", "o", ";">>

\* a ';' past the lookahead bound
RefTooLong ==
  <<"&", "#", "0", "0", "0", "0", "0", "0", "0", "0", "0", "0", "6", "0", ";">>

MalformedRefs ==
  {RefEmpty, RefNoDigits, RefBadDigits, RefUnknown, RefTooLong}

\* and numeric references to what is no code point:
\* a surrogate
RefSurrogate ==
  <<"&", "#", "x", "D", "8", "0", "0", ";">>

\* a value past 0x10FFFF
RefPastMax ==
  <<"&", "#", "x", "1", "1", "0", "0", "0", "0", ";">>

\* a value that fits 32 bits but no rune
RefPastRune ==
  <<"&", "#", "x", "F", "F", "F", "F", "F", "F", "F", "F", ";">>

InvalidCodePoints ==
  {RefSurrogate, RefPastMax, RefPastRune}

Pieces == Literals \cup WellFormedRefs \cup MalformedRefs \cup InvalidCodePoints

\* the inputs of Unescape: the sequences of at most n pieces of which at most
\* one is a malformed reference or a reference to no code point
PieceSeqs(n) ==
  UNION {{ps \in [1..k -> Pieces] :
            Cardinality({j \in 1..k : ps[j] \in MalformedRefs \cup InvalidCodePoints}) <= 1}
         : k \in 0..n}

RECURSIVE Flatten(_)
\* the bytes of a sequence of pieces
Flatten(ps) == IF ps = <<>> THEN <<>> ELSE ps[1] \o Flatten(Tail(ps))

InitUnescape ==
  /\ ReaderUnused
  /\ \E ps \in PieceSeqs(MaxPieces) : call = [fn |-> "none", arg |-> ps, out |-> <<>>]

\* one call of Unescape on the bytes of the pieces
CallUnescape ==
  /\ call.fn = "none"
  /\ call' = [call EXCEPT !.fn = "Unescape", !.out = UnescapeReturned(Unescape(Flatten(call.arg)))]
  /\ UNCHANGED readerVars

NextUnescape == CallUnescape

SpecUnescape == InitUnescape /\ [][NextUnescape]_vars

\* the bytes Name is called on: every string of at most MaxNameLen bytes
\* over NameAlphabet, and the tags of the examples
NameAlphabet == {"<", ">", "/", " ", "\t", "a", ":"}

TagSelfClosing ==
  <<"<", "s", "e", "l", "f", "c", "l", "o", "s", "i", "n", "g", "/", ">">>

TagEnd ==
  <<"<", "/", "e", "l", "e", "m", "e", "n", "t", ">">>

TagEndPrefixed ==
  <<"<", "/", "p", ":", "a", ">">>

TagStartAttrs ==
  <<"<", "e", "l", "e", "m", "e", "n", "t", " ", "a", "=", "\"", "1", "\"", ">">>

NameInputs ==
  UNION {[1..k -> NameAlphabet] : k \in 0..MaxNameLen}
    \cup {TagSelfClosing, TagEnd, TagEndPrefixed, TagStartAttrs}

InitName ==
  /\ ReaderUnused
  /\ \E b \in NameInputs : call = [fn |-> "none", arg |-> b, out |-> <<>>]

\* one call of gosax.Name
CallName ==
  /\ call.fn = "none"
  /\ call' = [call EXCEPT !.fn = "Name", !.out = Name(call.arg)]
  /\ UNCHANGED readerVars

\* one call of xmlb Token.Name().Local()
CallTokenName ==
  /\ call.fn = "none"
  /\ call' = [call EXCEPT !.fn = "TokenName",
                           !.out = [local |-> Local(TokenName(call.arg).b, TokenName(call.arg).p)]]
  /\ UNCHANGED readerVars

NextName == CallName \/ CallTokenName

SpecName == InitName /\ [][NextName]_vars

\* the attributes a start tag is built of: key, the bytes around '=', value
\* foo="&lt;bar&gt;"
AttrEntity ==
  [key |-> <<"f", "o", "o">>, eq |-> <<"=">>, val |-> <<"\"", "&", "l", "t", ";", "b", "a", "r", "&", "g", "t", ";", "\"">>]

\* bar="qux"
AttrPlain ==
  [key |-> <<"b", "a", "r">>, eq |-> <<"=">>, val |-> <<"\"", "q", "u", "x", "\"">>]

\* b =<tab>'x y', whitespace around '=' and inside the value
AttrSpaced ==
  [key |-> <<"b">>, eq |-> <<" ", "=", "\t">>, val |-> <<"'", "x", " ", "y", "'">>]

\* n:d="", an empty value and a prefixed key
AttrEmpty ==
  [key |-> <<"n", ":", "d">>, eq |-> <<"=">>, val |-> <<"\"", "\"">>]

\* c, a key without "="
AttrBare ==
  [key |-> <<"c">>, eq |-> <<>>, val |-> <<>>]

GoodAttrs == {AttrEntity, AttrPlain, AttrSpaced, AttrEmpty, AttrBare}

\* attributes whose value is missing or not quoted
\* f=, nothing after "="
AttrNoValue ==
  [key |-> <<"f">>, eq |-> <<"=">>, val |-> <<>>]

\* f= and a space, nothing after the whitespace
AttrBlankValue ==
  [key |-> <<"f">>, eq |-> <<"=", " ">>, val |-> <<>>]

\* f=x, a value without quotes
AttrUnquoted ==
  [key |-> <<"f">>, eq |-> <<"=">>, val |-> <<"x">>]

BadAttrs == {AttrNoValue, AttrBlankValue, AttrUnquoted}

\* an attribute whose value opens with a quote that is never closed
AttrUnclosed ==
  [key |-> <<"u">>, eq |-> <<"=">>, val |-> <<"\"", "x">>]

OpenAttrs == {AttrUnclosed}

\* the whitespace between the last attribute and '>': none, or newline tab
Tails == {<<>>, <<"\n", "\t">>}

\* the start tags: at most n attributes of which at most one is bad or
\* unclosed, and a tail
TagSpecs(n) ==
  UNION {{[attrs |-> as, tail |-> t] :
            as \in {ps \in [1..k -> GoodAttrs \cup BadAttrs \cup OpenAttrs] :
                      Cardinality({j \in 1..k : ps[j] \notin GoodAttrs}) <= 1},
            t \in Tails}
         : k \in 0..n}

RECURSIVE AttrBytes(_)
\* the bytes of a list of attributes, a space before each
AttrBytes(as) ==
  IF as = <<>> THEN <<>>
  ELSE <<" ">> \o as[1].key \o as[1].eq \o as[1].val \o AttrBytes(Tail(as))

\* the bytes of the start tag of element e with these attributes
TagBytes(tag) == <<"<", "e">> \o AttrBytes(tag.attrs) \o tag.tail \o <<">">>

\* a Reader over the bytes of a start tag, and the tag not yet looked at
InitAttr ==
  /\ \E tag \in TagSpecs(MaxAttrs) :
       /\ input = TagBytes(tag)
       /\ call = [fn |-> "none", arg |-> tag, out |-> <<>>]
  /\ srcErr = "EOF"
  /\ EmitSelfClosingTag = FALSE
  /\ reader = NewReaderBuf({}, DefaultBufSize)
  /\ state = "stateInit"
  /\ ret = NoReturn
  /\ term = NoReturn
  /\ events = <<>>
  /\ faulted = FALSE
  /\ after = 0
  /\ resets = 0
  /\ storage = DefaultBufSize
  /\ decoder = DecoderZero

\* Name on the bytes of the tag: the name and the bytes the attributes are
\* read from
CallNameOfTag ==
  /\ call.fn = "none"
  /\ call' = [call EXCEPT !.fn = "Name",
                           !.out = [name |-> Name(TagBytes(call.arg)).name,
                                    rest |-> Name(TagBytes(call.arg)).rest,
                                    got |-> <<>>,
                                    err |-> "nil"]]
  /\ UNCHANGED readerVars

\* what the consumer holds after NextAttribute has returned r
attrTaken(out, r) ==
  [name |-> out.name, rest |-> r.rest, got |-> Append(out.got, r.attr), err |-> r.err]

\* one more call of NextAttribute on the remainder, while there is one
CallNextAttribute ==
  /\ call.fn \in {"Name", "NextAttribute"}
  /\ call.out.err = "nil"
  /\ Len(call.out.rest) > 0
  /\ call' = [call EXCEPT !.fn = "NextAttribute",
                           !.out = attrTaken(call.out, NextAttribute(call.out.rest))]
  /\ UNCHANGED readerVars

\* what the consumer of ExampleStartElement has after Reader.Event returned
\* r: it stops on an error, and calls gosax.Token otherwise
tokenOfEvent(r) ==
  IF r.err = "nil" THEN StartElement(r.ev.Bytes)
  ELSE ElementResult(xmlName(<<>>), <<>>, r.err)

\* the consumer of ExampleStartElement: one call of Reader.Event, then
\* gosax.Token, that is gosax.StartElement, on the Bytes of the event
CallStartElement ==
  /\ call.fn = "none"
  /\ Call(Event(reader, state))
  /\ call' = [call EXCEPT !.fn = "StartElement",
                           !.out = tokenOfEvent(Event(reader, state))]
  /\ UNCHANGED <<input, srcErr, EmitSelfClosingTag, resets, storage, decoder>>

NextAttr == CallNameOfTag \/ CallNextAttribute \/ CallStartElement

SpecAttr == InitAttr /\ [][NextAttr]_vars

\* <a><b>V</b></a>x: a nested element, and a text after the outer element
DocSkipNested ==
  <<"<", "a", ">", "<", "b", ">", "V", "<", "/", "b", ">", "<", "/", "a", ">", "x">>

\* <a><b/></a>x: a self-closing child, and a text after the outer element
DocSkipSelfClosing ==
  <<"<", "a", ">", "<", "b", "/", ">", "<", "/", "a", ">", "x">>

\* the documents read through a Decoder
DecoderDocs ==
  {DocSkipNested, DocSkipSelfClosing, DocSelfClosing, DocUnknownBang, DocCutEnd, DocEmpty}

\* a Decoder made by NewDecoder over a document: the self-closing option set
InitDecoder ==
  /\ input \in DecoderDocs
  /\ srcErr \in {"EOF", "ErrIO"}
  /\ EmitSelfClosingTag = TRUE
  /\ \E cuts \in ResetPlans(Len(input)), bufSize \in {SmallBuf, DefaultBufSize} :
       /\ reader = NewReaderBuf(cuts, bufSize)
       /\ storage = bufSize
  /\ state = "stateInit"
  /\ ret = NoReturn
  /\ term = NoReturn
  /\ events = <<>>
  /\ faulted = FALSE
  /\ after = 0
  /\ resets = 0
  /\ call = NoCall
  /\ decoder = DecoderZero

\* the (Token, error) pair, or the error of Skip, handed back by the call t
DecoderReturned(t, tok) == [ev |-> tok, err |-> IF t.fault THEN "panic" ELSE t.err]

\* the consumer's record of a call of the Decoder: the tokens the calls of
\* Token have returned so far, Skip's included, are kept in events
DecoderDeliver(t, toks, rt) ==
  /\ reader' = t.rr
  /\ state' = t.state
  /\ decoder' = t.d
  /\ faulted' = t.fault
  /\ ret' = rt
  /\ events' = events \o toks
  /\ term' = IF term = NoReturn /\ IsTerminal(rt) THEN rt ELSE term
  /\ after' = IF term # NoReturn THEN after + 1 ELSE after

\* the calls of Peek made in a row up to now
Peeks == IF call.fn = "Peek" THEN call.arg.peeks + 1 ELSE 0

\* what the consumer knows when it makes a call: the number of tokens taken
\* so far, the previous call and its error, and the calls of Peek made in a
\* row just before
CallSite == [at |-> Len(events), prev |-> call.fn, prevErr |-> ret.err, peeks |-> Peeks]

tokenTaken(t) ==
  /\ DecoderDeliver(t, IF ~t.fault /\ t.err = "nil" THEN <<t.tok>> ELSE <<>>,
                    DecoderReturned(t, t.tok))
  /\ call' = [fn |-> "Token", arg |-> CallSite, out |-> DecoderReturned(t, t.tok)]

\* one call of Decoder.Token by the consumer
CallToken ==
  /\ ~faulted
  /\ after < MaxAfter
  /\ tokenTaken(DecoderToken(decoder, reader, state))
  /\ UNCHANGED <<input, srcErr, EmitSelfClosingTag, resets, storage>>

tokenPeeked(t) ==
  /\ DecoderDeliver(t, <<>>, DecoderReturned(t, t.tok))
  /\ call' = [fn |-> "Peek", arg |-> CallSite, out |-> DecoderReturned(t, t.tok)]

\* one call of Decoder.Peek by the consumer
CallPeek ==
  /\ ~faulted
  /\ after < MaxAfter
  /\ Peeks < MaxPeeks
  /\ tokenPeeked(DecoderPeek(decoder, reader, state))
  /\ UNCHANGED <<input, srcErr, EmitSelfClosingTag, resets, storage>>

tokensSkipped(t) ==
  /\ DecoderDeliver(t, t.toks, DecoderReturned(t, EventZero))
  /\ call' = [fn |-> "Skip", arg |-> CallSite, out |-> DecoderReturned(t, EventZero)]

\* one call of Decoder.Skip by the consumer
CallSkip ==
  /\ ~faulted
  /\ after < MaxAfter
  /\ tokensSkipped(DecoderSkip(decoder, reader, state))
  /\ UNCHANGED <<input, srcErr, EmitSelfClosingTag, resets, storage>>

NextDecoder == CallToken \/ CallPeek \/ CallSkip

SpecDecoder == InitDecoder /\ [][NextDecoder]_vars

\* <a>x&lt;y</a>: a text with an entity reference inside an element
DocTextEntity ==
  <<"<", "a", ">", "x", "&", "l", "t", ";", "y", "<", "/", "a", ">">>

\* a&amp;lt;: a text whose decoded form holds an entity reference
DocTextAmp ==
  <<"a", "&", "a", "m", "p", ";", "l", "t", ";">>

\* x&foo;<b/>: a text with an unknown entity reference
DocTextUnknown ==
  <<"x", "&", "f", "o", "o", ";", "<", "b", "/", ">">>

\* the documents read through Decoder.Text
TextDocs == {DocTextEntity, DocTextAmp, DocTextUnknown, DocSkipNested}

InitText ==
  /\ input \in TextDocs
  /\ srcErr \in {"EOF", "ErrIO"}
  /\ EmitSelfClosingTag = TRUE
  /\ \E cuts \in ResetPlans(Len(input)), bufSize \in {SmallBuf, DefaultBufSize} :
       /\ reader = NewReaderBuf(cuts, bufSize)
       /\ storage = bufSize
  /\ state = "stateInit"
  /\ ret = NoReturn
  /\ term = NoReturn
  /\ events = <<>>
  /\ faulted = FALSE
  /\ after = 0
  /\ resets = 0
  /\ call = NoCall
  /\ decoder = DecoderZero

\* the (string, error) pair handed back by the call t of Text
TextReturned(t) == [text |-> t.text, err |-> IF t.fault THEN "panic" ELSE t.err]

textCalled(t) ==
  /\ reader' = t.rr
  /\ state' = t.state
  /\ decoder' = t.d
  /\ faulted' = t.fault
  /\ call' = [fn |-> "Text", arg |-> CallSite, out |-> TextReturned(t)]

\* one call of Decoder.Text by the consumer
CallText ==
  /\ ~faulted
  /\ after < MaxAfter
  /\ textCalled(DecoderText(decoder, reader, state))
  /\ UNCHANGED <<input, srcErr, EmitSelfClosingTag, resets, storage, ret, term,
                 events, after>>

NextText == CallToken \/ CallPeek \/ CallText

SpecText == InitText /\ [][NextText]_vars

\* Reader.Events, the consumer's yield always returning true: the loop has
\* not returned, and the parity of the number of yields made so far
EventsRunning(yields) == [fn |-> "Events", arg |-> <<>>, out |-> [returned |-> FALSE, yields |-> yields]]

\* Reader.Events has returned
EventsDone(yields) == [fn |-> "Events", arg |-> <<>>, out |-> [returned |-> TRUE, yields |-> yields]]

\* the documents iterated with Events
EventsDocs ==
  {DocSelfClosing, DocLongText, DocComment, DocUnknownBang, DocCutEnd, DocCutBang, DocEmpty}

\* r.Events(yield) called on a new Reader over a document
InitEvents ==
  /\ input \in EventsDocs
  /\ srcErr \in {"EOF", "ErrIO"}
  /\ EmitSelfClosingTag = FALSE
  /\ \E cuts \in ResetPlans(Len(input)), bufSize \in {SmallBuf, DefaultBufSize} :
       reader = NewReaderBuf(cuts, bufSize)
  /\ state = "stateInit"
  /\ ret = NoReturn
  /\ term = NoReturn
  /\ events = <<>>
  /\ faulted = FALSE
  /\ after = 0
  /\ resets = 0
  /\ storage = reader.cap
  /\ call = EventsRunning(0)
  /\ decoder = DecoderZero

\* one turn of the loop of Events, r being the call of Event it makes:
\* if event.Type() == EventEOF { return }; if !yield(event, err) { return };
\* the events yielded with a nil error are kept in events
eventsTurn(r) ==
  /\ reader' = r.rr
  /\ state' = r.state
  /\ faulted' = r.fault
  /\ ret' = Returned(r)
  /\ term' = IF term = NoReturn /\ IsTerminal(Returned(r)) THEN Returned(r) ELSE term
  /\ events' = IF IsTerminal(Returned(r)) THEN events ELSE Append(events, r.ev)
  /\ call' = IF r.fault THEN call
             ELSE IF r.ev.value = EventEOF THEN EventsDone(call.out.yields)
             ELSE EventsRunning((call.out.yields + 1) % 2)

EventsTurn ==
  /\ ~faulted
  /\ ~call.out.returned
  /\ eventsTurn(Event(reader, state))
  /\ UNCHANGED <<input, srcErr, EmitSelfClosingTag, after, resets, storage, decoder>>

NextEvents == EventsTurn

\* the loop of Events takes one more turn: one more yield, or the return
EventsGoesOn ==
  /\ ~faulted
  /\ ~call.out.returned
  /\ call' \in {EventsRunning((call.out.yields + 1) % 2), EventsDone(call.out.yields)}

\* the loop of Events is a loop of one goroutine with no blocking call but
\* the reads of a finite source: it takes its next turn as long as it has
\* neither returned nor faulted
SpecEvents == InitEvents /\ [][NextEvents]_vars /\ WF_call(EventsGoesOn)

\* the windows the start-tag scan is applied to: n filler bytes, with up to
\* two bytes replaced by a quote, a '>' or the byte one bit away from '>'
Marks == {"\"", ">", "'", "?", "a"}

WindowWith(n, p1, c1, p2, c2) ==
  [i \in 1..n |-> IF i = p2 THEN c2 ELSE IF i = p1 THEN c1 ELSE "a"]

ScanWindows ==
  UNION {{WindowWith(n, p1, c1, p2, c2) : p1 \in 1..n, p2 \in 1..n, c1 \in Marks, c2 \in Marks}
         : n \in {MaxWindow - 8, MaxWindow}}

\* a window and the offset the scan is at, in state '>'
InitScan ==
  /\ ReaderUnused
  /\ \E w \in ScanWindows : \E offset \in 1..MaxOffset :
       call = [fn |-> "none", arg |-> [w |-> w, offset |-> offset], out |-> <<>>]

\* the test of the 8-byte word at the offset, where there is one
CallWordHit ==
  /\ call.fn = "none"
  /\ call.arg.offset + 8 <= Len(call.arg.w)
  /\ call' = [call EXCEPT !.fn = "wordHit",
                          !.out = [hit |-> wordHit(call.arg.w, call.arg.offset)]]
  /\ UNCHANGED readerVars

\* the scan of the window from the offset, in state '>': the offset the word
\* loop stops at, and the index p the linear scan finds from there
CallWordScan ==
  /\ call.fn = "none"
  /\ call' = [call EXCEPT !.fn = "wordScan",
                          !.out = [offset |-> wordSkip(call.arg.w, call.arg.offset),
                                   p |-> firstTarget(SliceFrom(call.arg.w,
                                           wordSkip(call.arg.w, call.arg.offset)))]]
  /\ UNCHANGED readerVars

NextScan == CallWordHit \/ CallWordScan

SpecScan == InitScan /\ [][NextScan]_vars

\* the pieces the content of a character-data token is made of: a byte, a
\* lone '&', well-formed references and a reference to an unknown entity
CharDataPieces == {<<"a">>, <<"&">>, RefLt, RefAmp, RefUnknown}

CharDataContents == UNION {[1..k -> CharDataPieces] : k \in 0..MaxPieces}

\* the tokens CharData is called on: made from a Text event, from a CData
\* event, and from a processing instruction
CharDataTokens ==
  {[content |-> c, ev |-> MkEvent(Flatten(c), EventText)] : c \in CharDataContents \ {<<>>}}
    \cup {[content |-> c,
           ev |-> MkEvent(<<"<", "!", "[", "C", "D", "A", "T", "A", "[">> \o Flatten(c)
                            \o <<"]", "]", ">">>, EventCData)]
          : c \in CharDataContents}
    \cup {[content |-> c, ev |-> MkEvent(<<"<", "?">> \o Flatten(c) \o <<"?", ">">>,
                                          EventProcessingInstruction)]
          : c \in CharDataContents}

InitCharData ==
  /\ ReaderUnused
  /\ \E t \in CharDataTokens : call = [fn |-> "none", arg |-> t, out |-> <<>>]

\* whether the token is one CharData may be called on
CallTokenType ==
  /\ call.fn = "none"
  /\ call' = [call EXCEPT !.fn = "Type", !.out = [kind |-> TokenType(call.arg.ev)]]
  /\ UNCHANGED readerVars

\* one call of Token.CharData on a token of kind CharData
CallCharData ==
  /\ call.fn = "Type"
  /\ call.out.kind = CharDataKind
  /\ call' = [call EXCEPT !.fn = "CharData",
                          !.out = UnescapeReturned(TokenCharData(call.arg.ev))]
  /\ UNCHANGED readerVars

NextCharData == CallTokenType \/ CallCharData

SpecCharData == InitCharData /\ [][NextCharData]_vars

\* ------------------------------------------------------- claim vocabulary
RECURSIVE Concat(_)
\* the Bytes of a sequence of events, concatenated in order
Concat(es) == IF es = <<>> THEN <<>> ELSE es[1].Bytes \o Concat(Tail(es))

IsPrefix(a, b) == Len(a) <= Len(b) /\ SubSeq(b, 1, Len(a)) = a

\* the first terminal return has just happened
JustEnded == term # NoReturn /\ after = 0

\* the step is a call of Event (Reset is the only other step)
EventCalled == resets' = resets

\* the (Event, error) pair of a clean end of input
CleanEOF == [ev |-> MkEvent(<<>>, EventEOF), err |-> "nil"]

\* a Start event of a self-closing tag: its Bytes end in "/>"
IsSelfClosing(e) ==
  /\ e.value = EventStart
  /\ Len(e.Bytes) >= 3
  /\ e.Bytes[Len(e.Bytes) - 1] = "/"
  /\ e.Bytes[Len(e.Bytes)] = ">"

RECURSIVE RunFrom(_, _, _)
RunStep(r, acc) ==
  IF IsTerminal(Returned(r)) THEN [events |-> acc, final |-> Returned(r)]
  ELSE RunFrom(r.rr, r.state, Append(acc, r.ev))

\* the events and the final outcome of calling Event until a terminal return
RunFrom(rr, st, acc) == RunStep(Event(rr, st), acc)

\* the run over the same input delivered in one read into NewReader's buffer
OneRead == RunFrom(NewReaderBuf({}, DefaultBufSize), "stateInit", <<>>)

\* ---------------------------------------------------------------- claims
\* C1 (as claimed): for a well-formed input, self-closing option disabled,
\* the source ending with io.EOF, the calls end with EventEOF and the Bytes of
\* the events returned before it, concatenated, are the input
C1_RoundTrip ==
  (input \in WellFormed /\ ~EmitSelfClosingTag /\ srcErr = "EOF" /\ JustEnded)
    => (term = CleanEOF /\ Concat(events) = input)

\* C2 (as claimed): however the input is split into reads, the events and
\* the final outcome are those of the one-read delivery
C2_ChunkingIndependence ==
  JustEnded => (events = OneRead.events /\ term = OneRead.final)

\* C3: once Event has returned EventEOF, the next call of Event returns EventEOF with
\* empty Bytes and a nil error, and leaves the reader (data, offset, source
\* position, number of reads) as it was
C3_TerminalIdempotence ==
  [][(ret = CleanEOF /\ EventCalled)
       => (ret' = CleanEOF /\ reader' = reader /\ events' = events)]_vars

\* C3 witness: a call was made after the one that returned EventEOF
C3_Witness == term = CleanEOF /\ after >= 1 /\ ret = CleanEOF

\* the events of <a><b>V</b><c/></a> with the self-closing option disabled
ExpectedSelfClosing ==
  <<[Bytes |-> <<"<", "a", ">">>, value |-> EventStart],
    [Bytes |-> <<"<", "b", ">">>, value |-> EventStart],
    [Bytes |-> <<"V">>, value |-> EventText],
    [Bytes |-> <<"<", "/", "b", ">">>, value |-> EventEnd],
    [Bytes |-> <<"<", "c", "/", ">">>, value |-> EventStart],
    [Bytes |-> <<"<", "/", "a", ">">>, value |-> EventEnd]>>

\* C4: with the option disabled, the event after the Start of a self-closing
\* tag is the next token of the input, never a synthesized End, and the Start
\* keeps its "/>"; <a><b>V</b><c/></a> gives exactly the six events of the spec
C4_SelfClosingDefault ==
  ~EmitSelfClosingTag =>
    /\ \A i \in 1..Len(events) :
         (IsSelfClosing(events[i]) /\ i < Len(events))
           => IsPrefix(Concat(SubSeq(events, 1, i + 1)), input)
    /\ (input = DocSelfClosing /\ srcErr = "EOF" /\ JustEnded)
         => (term = CleanEOF /\ events = ExpectedSelfClosing)

\* C4 witness: the example has been read to its end, option disabled
C4_Witness ==
  /\ ~EmitSelfClosingTag /\ input = DocSelfClosing /\ srcErr = "EOF"
  /\ term = CleanEOF /\ Len(events) = 6 /\ IsSelfClosing(events[5])

\* the element name of a tag: the bytes after "<" or "</", up to the first
\* whitespace, "/" or ">"
RECURSIVE NameUpTo(_, _)
NameUpTo(b, i) ==
  IF i > Len(b) \/ b[i] \in {" ", "\t", "\n", "\r", "/", ">"} THEN <<>>
  ELSE <<b[i]>> \o NameUpTo(b, i + 1)

ElementName(b) == IF Len(b) >= 2 /\ b[2] = "/" THEN NameUpTo(b, 3) ELSE NameUpTo(b, 2)

\* C5 (as claimed): with EmitSelfClosingTag set, the Start of a self-closing
\* tag is followed, on the next call, by an End event of the same element
C5_SelfClosingOptIn ==
  EmitSelfClosingTag =>
    \A i \in 1..Len(events) :
      IsSelfClosing(events[i]) =>
        IF i < Len(events)
        THEN /\ events[i + 1].value = EventEnd
             /\ ElementName(events[i + 1].Bytes) = ElementName(events[i].Bytes)
        ELSE ~IsTerminal(ret)

RECURSIVE UnquotedGt(_, _, _)
\* the 1-based position of the first '>' of b at or after i that is outside
\* quotes, q being the quote open at i ("" for none); 0 when there is none
UnquotedGt(b, i, q) ==
  IF i > Len(b) THEN 0
  ELSE IF q = ""
       THEN IF b[i] = ">" THEN i
            ELSE IF b[i] \in {"\"", "'"} THEN UnquotedGt(b, i + 1, b[i])
            ELSE UnquotedGt(b, i + 1, "")
       ELSE IF b[i] = q THEN UnquotedGt(b, i + 1, "")
            ELSE UnquotedGt(b, i + 1, q)

\* C6: every Start event ends at the first '>' of its tag that lies outside
\* a "..." or '...' value, whatever the split of the tag into reads
C6_QuoteAwareScan ==
  \A i \in 1..Len(events) :
    events[i].value = EventStart
      => UnquotedGt(events[i].Bytes, 2, "") = Len(events[i].Bytes)

\* C6 witness: the start tag of DocQuoted, whose values hold '>' and the other
\* quote, was returned whole although a read ended inside the first value
C6_Witness ==
  /\ input = DocQuoted /\ 7 \in reader.cuts
  /\ Len(events) >= 1
  /\ events[1].value = EventStart /\ Len(events[1].Bytes) = 17

\* b ends right after the first occurrence of pat at or after byte from
EndsAtFirst(b, from, pat) ==
  /\ from <= Len(b)
  /\ Index(SliceFrom(b, from), pat) >= 0
  /\ from + Index(SliceFrom(b, from), pat) + Len(pat) = Len(b)

\* C7 (as claimed): CData, Comment, ProcInst and End events end right after
\* the first terminator at or after byte 3 (CData, Comment) or 2 (ProcInst,
\* End) of the token, whatever the split into reads
C7_SplitTerminators ==
  \A i \in 1..Len(events) :
    LET e == events[i] IN
    /\ e.value = EventCData => EndsAtFirst(e.Bytes, 3, <<"]", "]", ">">>)
    /\ e.value = EventComment => EndsAtFirst(e.Bytes, 3, <<"-", "-", ">">>)
    /\ e.value = EventProcessingInstruction => EndsAtFirst(e.Bytes, 2, <<"?", ">">>)
    /\ e.value = EventEnd => EndsAtFirst(e.Bytes, 2, <<">">>)

RECURSIVE Depth(_, _)
\* the '<' / '>' nesting depth after the first n bytes of b
Depth(b, n) ==
  IF n = 0 THEN 0
  ELSE Depth(b, n - 1) + (IF b[n] = "<" THEN 1 ELSE IF b[n] = ">" THEN -1 ELSE 0)

\* C8 (as claimed): a DocType event spans the balanced construct: the depth
\* is back to zero at its last byte and not before, whatever the split
C8_DocTypeNesting ==
  \A i \in 1..Len(events) :
    events[i].value = EventDocType
      => /\ Depth(events[i].Bytes, Len(events[i].Bytes)) = 0
         /\ \A n \in 1..(Len(events[i].Bytes) - 1) : Depth(events[i].Bytes, n) > 0

\* C9 (as claimed): after a call has returned an error, the next call
\* returns the same error and no event
C9_ErrorStickiness ==
  [][(ret.err \notin {"nil", "none"} /\ EventCalled) => (ret' = ret)]_vars

\* C10 (as claimed): when the source has ended with io.EOF inside a token
\* (the unread window starts at its '<'), the call returned an error other
\* than io.EOF and no event
C10_TruncatedToken ==
  (reader.err = "EOF" /\ Len(window(reader)) > 0 /\ window(reader)[1] = "<")
    => (ret.err \notin {"nil", "none", "EOF"} /\ ret.ev = EventZero)

\* the number of bytes of the source the reader has consumed
Consumed(rr) == rr.pos - Len(window(rr))

\* the unread bytes of the source start with "<!" and a byte that opens no
\* declaration
AtUnknownBang(rr) ==
  /\ Consumed(rr) + 3 <= Len(input)
  /\ input[Consumed(rr) + 1] = "<"
  /\ input[Consumed(rr) + 2] = "!"
  /\ input[Consumed(rr) + 3] \notin {"[", "-", "D", "d"}

\* C11: an Event call made when the unread bytes are "<!" and a byte other
\* than '[', '-', 'D', 'd' returns the markup error "unknown bang type" and
\* the zero Event, and consumes nothing: the offset does not grow and the
\* unread bytes are the same
C11_UnknownDeclaration ==
  [][AtUnknownBang(reader) /\ EventCalled =>
       /\ ret' = [ev |-> EventZero, err |-> "unknown bang type"]
       /\ reader'.offset <= reader.offset
       /\ Consumed(reader') = Consumed(reader)]_vars

\* C11 witness: "a<!x>b" after Text(a), the call on "<!x" has returned the
\* markup error
C11_Witness ==
  /\ input = DocUnknownBang
  /\ events = <<MkEvent(<<"a">>, EventText)>>
  /\ ret.err = "unknown bang type"
  /\ AtUnknownBang(reader)

\* C12: when the source fails with an error other than io.EOF, the Event call
\* whose read failed returns that error and the zero Event; once the reader
\* holds the error no further read is made; and no call on that stream ever
\* returns EventEOF
C12_SourceErrorPropagated ==
  [][srcErr = "ErrIO" /\ EventCalled =>
       /\ (reader.err = "nil" /\ reader'.err = "ErrIO"
             => ret' = [ev |-> EventZero, err |-> "ErrIO"])
       /\ (reader.err = "ErrIO" => reader'.reads = reader.reads)
       /\ ret'.ev.value # EventEOF]_vars

\* C12 witness: the read error was met inside a token ("<a></a" cut short),
\* returned, and Event was called again
C12_Witness ==
  /\ input = DocCutEnd
  /\ srcErr = "ErrIO"
  /\ reader.err = "ErrIO"
  /\ term = [ev |-> EventZero, err |-> "ErrIO"]
  /\ after = MaxAfter

\* a Reader that has read nothing: an empty buffer of capacity cap, no
\* stored error, stateInit, its source at the start of the read plan cuts
FreshReader(cuts, cap) ==
  [data |-> <<>>, offset |-> 0, cap |-> cap, err |-> "nil",
   pos |-> 0, cuts |-> cuts, reads |-> 0]

Character(x) ==
  CASE x = RefLt -> <<"<">>
    [] x = RefGt -> <<">">>
    [] x = RefAmp -> <<"&">>
    [] x = RefApos -> <<"'">>
    [] x = RefQuot -> <<"\"">>
    [] x = RefDec -> <<"<">>
    [] x = RefHex -> <<"<">>
    [] x = RefTwoBytes -> <<"byte195", "byte169">>
    [] x = RefThreeBytes -> <<"byte226", "byte130", "byte172">>
    [] x = RefFourBytes -> <<"byte240", "byte159", "byte152", "byte128">>

RECURSIVE Decoded(_)
\* the pieces with each literal kept and each reference replaced by its
\* character
Decoded(ps) ==
  IF ps = <<>> THEN <<>>
  ELSE (IF ps[1] \in Literals THEN ps[1] ELSE Character(ps[1])) \o Decoded(Tail(ps))

\* Unescape has returned
Unescaped == call.fn = "Unescape"

\* the pieces of the input that are in the set S
PiecesIn(S) == {k \in 1..Len(call.arg) : call.arg[k] \in S}

C15_LineEndings ==
  (Unescaped /\ call.out.err = "nil") => IndexByte(call.out.b, "\r") < 0

C17_MalformedRejected ==
  (Unescaped /\ PiecesIn(MalformedRefs) # {})
    => (call.out.err \notin {"nil", "panic"} /\ call.out.b = <<>>)

\* C17 witness: Unescape has returned on an input whose malformed reference
\* comes after a well-formed one and a literal
C17_Witness ==
  /\ Unescaped
  /\ call.arg = <<RefAmp, <<"a">>, RefTooLong>>
  /\ call.out.err # "nil"

\* C18 (as claimed): for an input holding a numeric reference to a surrogate,
\* to a value past 0x10FFFF or to a value that fits no rune, Unescape returns
\* an error
C18_InvalidCodePointRejected ==
  (Unescaped /\ PiecesIn(InvalidCodePoints) # {}) => call.out.err # "nil"

\* b without one leading '<' and one trailing '>', each removed when present
Stripped(b) ==
  SubSeq(b,
         IF b # <<>> /\ b[1] = "<" THEN 2 ELSE 1,
         IF Len(b) > (IF b # <<>> /\ b[1] = "<" THEN 1 ELSE 0) /\ b[Len(b)] = ">"
         THEN Len(b) - 1 ELSE Len(b))

\* the places of the whitespace bytes of b
Blanks(b) == {i \in 1..Len(b) : b[i] \in {" ", "\r", "\n", "\t"}}

\* C19 (as claimed): Name(b) returns the bytes of b, stripped of one leading
\* '<' and one trailing '>', before the first whitespace byte and the bytes
\* after it; without a whitespace byte, all the stripped bytes and nothing
C19_NameSplitting ==
  call.fn = "Name" =>
    IF Blanks(Stripped(call.arg)) = {}
    THEN call.out = [name |-> Stripped(call.arg), rest |-> <<>>]
    ELSE \E i \in Blanks(Stripped(call.arg)) :
           /\ \A j \in Blanks(Stripped(call.arg)) : i <= j
           /\ call.out = [name |-> SubSeq(Stripped(call.arg), 1, i - 1),
                          rest |-> SubSeq(Stripped(call.arg), i + 1, Len(Stripped(call.arg)))]

\* the bytes of a name: no markup byte, no whitespace
IsBareName(n) == n # <<>> /\ \A i \in 1..Len(n) : n[i] \notin {"<", ">", "/", " ", "\t", "\r", "\n"}

\* b is "<" name "/>": the Bytes of the Start event of a self-closing tag
SelfClosingTagOf(b, n) == b = <<"<">> \o n \o <<"/", ">">>

\* b is "</" name ">": the Bytes of an End event
EndTagOf(b, n) == b = <<"<", "/">> \o n \o <<">">>

\* the names b may be a self-closing or an end tag of
NamesIn(b) == {SubSeq(b, i, j) : i \in 2..3, j \in (Len(b) - 2)..(Len(b) - 1)}

\* C20 (as claimed): on the Bytes of the Start event of a self-closing tag
\* and on the Bytes of an End event, Name returns the element name alone;
\* on an End token, Token.Name().Local() returns the name after its prefix
C20_BareElementNames ==
  \A n \in NamesIn(call.arg) :
    IsBareName(n) =>
      /\ (call.fn = "Name" /\ (SelfClosingTagOf(call.arg, n) \/ EndTagOf(call.arg, n)))
           => call.out.name = n
      /\ (call.fn = "TokenName" /\ EndTagOf(call.arg, n))
           => call.out.local = SliceFrom(n, IndexByte(n, ":") + 1)

\* NextAttribute has been called on the remainder of the tag, k times so far
AttrsTaken == IF call.fn = "NextAttribute" THEN Len(call.out.got) ELSE 0

\* the bytes of the tag after its k-th attribute, the '>' left out
Remaining(tag, k) == AttrBytes(SubSeq(tag.attrs, k + 1, Len(tag.attrs))) \o tag.tail

\* b without its leading whitespace bytes
TrimLeft(b) ==
  IF \A i \in 1..Len(b) : b[i] \in {" ", "\r", "\n", "\t"} THEN <<>>
  ELSE SubSeq(b, CHOOSE i \in 1..Len(b) :
                   /\ b[i] \notin {" ", "\r", "\n", "\t"}
                   /\ \A j \in 1..(i - 1) : b[j] \in {" ", "\r", "\n", "\t"},
              Len(b))

\* every attribute of the tag has a quoted value or no '=' at all
AllGood(tag) == \A j \in 1..Len(tag.attrs) : tag.attrs[j] \in GoodAttrs

\* C21: on the remainder Name returns for a start tag, each call of
\* NextAttribute returns a nil error and the next attribute of the tag: Key
\* the bytes before '=', Value the quoted value with its quotes (none for a
\* key without '='), the remainder starting right after the closing quote
\* (at the next key after a key without '='); a call on nothing but
\* whitespace returns the empty Attribute and no remainder
C21_AttributeIteration ==
  (AttrsTaken > 0 /\ AllGood(call.arg)) =>
    /\ call.out.err = "nil"
    /\ call.out.name = <<"e">>
    /\ IF AttrsTaken <= Len(call.arg.attrs)
       THEN /\ call.out.got[AttrsTaken]
                 = [Key |-> call.arg.attrs[AttrsTaken].key,
                    Value |-> call.arg.attrs[AttrsTaken].val]
            /\ call.out.rest
                 = IF call.arg.attrs[AttrsTaken].val # <<>>
                   THEN Remaining(call.arg, AttrsTaken)
                   ELSE TrimLeft(Remaining(call.arg, AttrsTaken))
       ELSE /\ call.out.got[AttrsTaken] = [Key |-> <<>>, Value |-> <<>>]
            /\ call.out.rest = <<>>

\* C21 witness: the tag of the example, <e foo="&lt;bar&gt;" bar="qux">, read
\* to its end: foo, then bar
C21_Witness ==
  /\ call.arg = [attrs |-> <<AttrEntity, AttrPlain>>, tail |-> <<>>]
  /\ AttrsTaken = 2
  /\ call.out.rest = <<>>
  /\ call.out.got[2].Value = AttrPlain.val

\* C22 (as claimed): the call of NextAttribute that reads an attribute whose
\* '=' is followed by no quote returns an error, not a fault
C22_UnquotedValueFails ==
  (AttrsTaken > 0 /\ AttrsTaken <= Len(call.arg.attrs)
     /\ call.arg.attrs[AttrsTaken] \in BadAttrs)
    => call.out.err \notin {"nil", "panic"}

\* every attribute of the tag has a quoted value
AllQuoted(tag) == \A j \in 1..Len(tag.attrs) : tag.attrs[j] \in GoodAttrs \ {AttrBare}

\* C23 (as claimed): for a start tag whose last attribute is followed by
\* whitespace before '>', the scanner returns the whole tag as one Start event
\* and StartElement on it returns a nil error and one attribute for each
\* attribute of the tag, under its key
C23_WhitespaceBeforeClose ==
  (call.fn = "StartElement" /\ AllQuoted(call.arg)
     /\ Len(call.arg.attrs) > 0 /\ call.arg.tail # <<>>)
    => /\ events = <<MkEvent(input, EventStart)>>
       /\ call.out.err = "nil"
       /\ Len(call.out.Attr) = Len(call.arg.attrs)
       /\ \A j \in 1..Len(call.arg.attrs) :
            call.out.Attr[j].Name = xmlName(call.arg.attrs[j].key)

\* C24 (as claimed): StartElement returns each attribute's Value with the
\* surrounding quotes removed and the entity references decoded
C24_DecodedAttributeValues ==
  (call.fn = "StartElement" /\ AllQuoted(call.arg) /\ call.arg.tail = <<>>)
    => /\ call.out.err = "nil"
       /\ Len(call.out.Attr) = Len(call.arg.attrs)
       /\ \A j \in 1..Len(call.arg.attrs) :
            call.out.Attr[j].Value
              = Unescape(SubSeq(call.arg.attrs[j].val, 2, Len(call.arg.attrs[j].val) - 1)).b

\* what calls of Decoder.Token alone deliver over the same source, read the
\* same way into the same buffer: the tokens, and the error that ends them
TokensAlone == RunFrom(NewReaderBuf(reader.cuts, storage), "stateInit", <<>>)

TokensAloneErr ==
  IF TokensAlone.final = CleanEOF THEN "EOF" ELSE TokensAlone.final.err

\* C25: after Peek has returned a token with a nil error, a further Peek
\* returns the same token and reads nothing from the Reader, and the next
\* Token returns that token, reads nothing and leaves no token held; the
\* tokens returned by the calls of Token, whatever calls of Peek lie between
\* them, are those calls of Token alone deliver, in order, and the first
\* error returned is the one that ends them (io.EOF at the end of the input)
C25_PeekTokenConsistency ==
  /\ [](/\ IsPrefix(events, TokensAlone.events)
        /\ JustEnded => (events = TokensAlone.events /\ term.err = TokensAloneErr))
  /\ [][(call.fn = "Peek" /\ call.out.err = "nil")
         => /\ call'.fn = "Peek"
               => (call'.out = call.out /\ reader' = reader /\ decoder' = decoder)
            /\ call'.fn = "Token"
               => /\ call'.out = call.out
                  /\ reader' = reader
                  /\ decoder'.t = <<>>
                  /\ events' = Append(events, call.out.ev)]_vars

\* C25 witness: over <a><b>V</b></a>x, the consumer called Peek twice before
\* each Token, and after the six tokens Peek has returned io.EOF twice
C25_Witness ==
  /\ input = DocSkipNested
  /\ call.fn = "Peek" /\ call.arg.peeks = 1 /\ call.out.err = "EOF"
  /\ term.err = "EOF"
  /\ Len(events) = 6

\* the tokens of the document
DocTokens == OneRead.events

\* the balance of starts and ends of the tokens i..j, a self-closing start
\* being a start and its end
Balance(toks, i, j) ==
  Cardinality({n \in i..j : toks[n].value = EventStart /\ ~IsSelfClosing(toks[n])})
    - Cardinality({n \in i..j : toks[n].value = EventEnd})

\* the index of the token that ends the element started by token k
ElementEnd(toks, k) ==
  IF IsSelfClosing(toks[k]) THEN k
  ELSE LeastOr({j \in (k + 1)..Len(toks) : Balance(toks, k + 1, j) = -1}, 0)

\* Skip has just returned, called right after Token returned the start of an
\* element whose end is in the input
SkippedElement ==
  /\ call.fn = "Skip"
  /\ call.arg.prev = "Token" /\ call.arg.prevErr = "nil"
  /\ events[call.arg.at].value = EventStart
  /\ ElementEnd(DocTokens, call.arg.at) > 0

\* C26 (as claimed): Skip called right after Token returned the start of
\* element X returns nil and has consumed the input up to the end of X and no
\* further, the self-closing children counted as balanced pairs
C26_SkipBalance ==
  SkippedElement
    => /\ call.out.err = "nil"
       /\ Concat(events) = Concat(SubSeq(DocTokens, 1, ElementEnd(DocTokens, call.arg.at)))

\* C27 (as claimed): with a yield that always returns true, Events returns
\* after finitely many yields, whatever Event reports
C27_EventsTerminates == <>(call.out.returned)

\* C28 (as claimed): every Text event returned has non-empty Bytes that hold
\* no '<', whatever the input and its split into reads
C28_TextRuns ==
  \A i \in 1..Len(events) :
    events[i].value = EventText
      => /\ Len(events[i].Bytes) > 0
         /\ \A n \in 1..Len(events[i].Bytes) : events[i].Bytes[n] # "<"

\* C29 (as claimed): no call of Event faults, whatever the input and its
\* split into reads
C29_EventNeverFaults == ~faulted

\* the plain byte-by-byte scan: the 0-based index in w, at or after offset,
\* of the first '"', '>' or '\'', else -1
LinearScan(w, offset) ==
  LeastOr({i \in offset..(Len(w) - 1) : w[i + 1] \in {"\"", ">", "'"}}, -1)

\* C30: the test of an 8-byte word is true exactly when the word holds a
\* '"', a '>' or a '\''; and the word loop followed by the linear scan finds
\* the byte the plain byte-by-byte scan from the same offset finds, or none
\* when there is none: no 8-byte advance skips a target
C30_WordScanIsLinearScan ==
  /\ call.fn = "wordHit"
       => (call.out.hit <=> \E k \in 1..8 : call.arg.w[call.arg.offset + k] \in {"\"", ">", "'"})
  /\ call.fn = "wordScan"
       => IF LinearScan(call.arg.w, call.arg.offset) < 0 THEN call.out.p < 0
          ELSE /\ call.out.p >= 0
               /\ call.out.offset + call.out.p = LinearScan(call.arg.w, call.arg.offset)

\* C30 witness: the word loop advanced by two words and the linear scan
\* found the target in the bytes left
C30_Witness ==
  /\ call.fn = "wordScan"
  /\ call.out.offset = call.arg.offset + 16
  /\ call.out.p >= 0

\* C31 (as claimed): CharData on a token made from a CData event returns
\* the bytes between the delimiters as they are, and a nil error, whatever
\* the content; on a token made from a Text event whose references are well
\* formed it returns the content with the references decoded
C31_CDataNotDecoded ==
  call.fn = "CharData" =>
    /\ call.arg.ev.value = EventCData
         => call.out = [b |-> Flatten(call.arg.content), err |-> "nil"]
    /\ (call.arg.ev.value = EventText
          /\ \A k \in 1..Len(call.arg.content) : call.arg.content[k] \in {<<"a">>, RefLt, RefAmp})
         => call.out = [b |-> [k \in 1..Len(call.arg.content) |->
                                 IF call.arg.content[k] = RefLt THEN "<"
                                 ELSE IF call.arg.content[k] = RefAmp THEN "&" ELSE "a"],
                        err |-> "nil"]

\* the slice v opens and closes with the same quote character
WellQuoted(v) ==
  /\ Len(v) >= 2
  /\ v[1] \in {"\"", "'"}
  /\ v[Len(v)] = v[1]

\* C32: whenever NextAttribute returns a nil error and a non-empty Value,
\* the Value is at least two bytes long and its first and last bytes are the
\* same quote character, also when the closing quote of the value is missing
C32_ValuesWellQuoted ==
  (/\ AttrsTaken > 0
   /\ call.out.err = "nil"
   /\ call.out.got[AttrsTaken].Value # <<>>)
    => WellQuoted(call.out.got[AttrsTaken].Value)

\* the token a call of Text finds pending: the held one
PendingToken == decoder.t[1]

\* C33: Text does not consume the pending token; called twice in a row on a
\* CharData token whose text holds entity references it returns the same
\* decoded string both times; for a pending token that is not CharData it
\* returns the empty string and a nil error and leaves the token pending
C33_TextIsPurePeek ==
  [][(call'.fn = "Text" /\ decoder.t # <<>> /\ decoder.err = "nil")
       => /\ events' = events
          /\ reader'.offset = reader.offset
          /\ Len(decoder'.t) = 1
          /\ (call.fn = "Text" /\ TokenType(PendingToken) = CharDataKind)
               => call'.out = call.out
          /\ TokenType(PendingToken) # CharDataKind
               => /\ call'.out = [text |-> <<>>, err |-> "nil"]
                  /\ decoder' = decoder
                  /\ reader' = reader]_vars
====
